---- MODULE Spec2Model ----
(***************************************************************************)
(* Nissmart ledger: the idempotency gate, the posting engine and the store *)
(* they run against, as a state machine.                                   *)
(*                                                                         *)
(* The store is the relational store the code is written for: every        *)
(* statement of a request reads the rows committed at that moment plus the *)
(* request's own uncommitted rows; SELECT ... FOR UPDATE and INSERTs into  *)
(* a unique index wait for the transaction holding the row; what a request *)
(* wrote becomes visible to the others at its commit, all at once.         *)
(*                                                                         *)
(* Each request owns one SQLAlchemy session.  An Account read once stays   *)
(* in the session's identity map: a later SELECT of the same row (the      *)
(* FOR UPDATE of _lock_account included) hands back the object already     *)
(* loaded, with the balance and version of the first read.  The version    *)
(* column (version_id_col) makes the UPDATE of a flush fail with           *)
(* StaleDataError when the stored version is no longer the loaded one.     *)
(*                                                                         *)
(* Time is a clock in ticks; it moves only in LockSpec, where the initial  *)
(* store may hold a key row without a response.                            *)
(*                                                                         *)
(* Amounts are whole units of the currency's smallest denomination.        *)
(* sha256 is taken to be injective on the canonical JSON it is applied to, *)
(* so a request hash is represented by that canonical form.                *)
(***************************************************************************)
EXTENDS Integers, Sequences, FiniteSets, TLC

\* ------------------------------------------------------------------ bounds
MaxReq == 2        \* requests of one run
MaxAmount == 2     \* largest amount of a request
MaxAccounts == 8   \* account ids that can be in use at once
TtlTicks == 1      \* ticks of the clock an idempotency lock lasts
MaxNow == 2        \* ticks of the clock in one run

\* ------------------------------------------------------------------ inputs
Requests == 1..MaxReq
Users == {"u1", "u2"}
Currencies == {"KES", "USD"}
Amounts == 1..MaxAmount
Keys == {"k1", "k2"}
NoKey == ""
References == {"r1"}
Emails == {"a@x", "c@x"}
Names == {"A", "C"}
NoRef == ""
KeyHeaders == Keys \cup {NoKey}
Ops == {"deposit", "transfer", "withdraw"}
AccountIds == 1..MaxAccounts

\* HTTP status codes used by the routes
HTTP_200_OK == 200
HTTP_201_CREATED == 201
HTTP_400_BAD_REQUEST == 400
HTTP_404_NOT_FOUND == 404
HTTP_409_CONFLICT == 409
HTTP_500_INTERNAL_SERVER_ERROR == 500

VARIABLES
    seed,           \* which initial store the run started from
    offered,        \* the currencies the requests of the run name
    supplied,       \* the references the requests of the run supply
    probe,          \* a stored payload hash and the payloads retried on it
    users,          \* user table: id -> row (committed)
    accounts,       \* account table: id -> row (committed)
    transactions,   \* transaction table, in commit order (committed)
    entries,        \* ledger_entry table (committed)
    idem,           \* idempotency_key table: key -> row (committed)
    expiry,         \* idempotency_key.expires_at: key -> tick (committed)
    now,            \* the clock (datetime.now), in ticks
    req             \* the requests: position, inputs, session, response
                    \* (during: the requests in service when it arrived)

vars ==
    <<seed, offered, supplied, probe, now, users, accounts, transactions, entries, idem,
      expiry, req>>
store == <<users, accounts, transactions, entries, idem, expiry>>

\* ------------------------------------------------------------- payloads
\* DepositRequest / WithdrawalRequest / TransferRequest (description left
\* unset; reference NoRef: unset)
DepositRequest ==
    [user_id : Users, amount : Amounts, currency : Currencies,
     reference : References \cup {NoRef}]
WithdrawalRequest ==
    [user_id : Users, amount : Amounts, currency : Currencies,
     reference : References \cup {NoRef}]
TransferRequest ==
    [source_user_id : Users, destination_user_id : Users,
     amount : Amounts, currency : Currencies,
     reference : References \cup {NoRef}]

\* UserCreate
UserCreate == [email : Emails, full_name : Names]

Payloads(op) ==
    CASE op = "deposit" -> DepositRequest
      [] op = "withdraw" -> WithdrawalRequest
      [] op = "transfer" -> TransferRequest
      [] op = "create_user" -> UserCreate

\* model_dump(mode="json") / _json_default: a Decimal becomes its string
DecimalStr(n) == ToString(n)

JsonValue(payload, f) ==
    IF f = "amount" THEN DecimalStr(payload[f]) ELSE payload[f]

\* the keys a payload can have, in the order json.dumps(sort_keys=True)
\* writes them
SortedKeys ==
    <<"amount", "currency", "destination_user_id", "email", "full_name",
      "reference", "source_user_id", "user_id">>

canonical_json(payload) ==
    LET ks == SelectSeq(SortedKeys, LAMBDA f : f \in DOMAIN payload)
    IN  [i \in 1..Len(ks) |-> <<ks[i], JsonValue(payload, ks[i])>>]

\* a digest that does not cover the amount
HashWithoutAmount(payload) == canonical_json([payload EXCEPT !.amount = 0])

\* hashlib.sha256(canonical json).hexdigest(): distinct canonical texts are
\* taken to have distinct digests, so the text stands for its digest
hash_request_payload(payload) == canonical_json(payload)

\* ------------------------------------------------- payload dictionaries
\* A Decimal is its coefficient and the number of digits after the point:
\* Decimal("10") and Decimal("10.00") are equal as numbers and differ in
\* the second.
Places == {0, 2}

RECURSIVE Pow10(_)
Pow10(k) == IF k = 0 THEN 1 ELSE 10 * Pow10(k - 1)

\* the amounts of Amounts as a client may write them (decimal_places=2)
Decimals ==
    {[digits |-> a * Pow10(k), places |-> k] : a \in Amounts, k \in Places}

RECURSIVE ZeroPadded(_, _)
ZeroPadded(n, width) ==
    IF width = 0 THEN ""
    ELSE ZeroPadded(n \div 10, width - 1) \o ToString(n % 10)

\* a rendering that keeps the whole part only
StrWhole(d) == ToString(d.digits \div Pow10(d.places))

\* str(Decimal): the digits with the point `places` from the right
str_Decimal(d) ==
    IF d.places = 0 THEN ToString(d.digits)
    ELSE ToString(d.digits \div Pow10(d.places)) \o "."
           \o ZeroPadded(d.digits % Pow10(d.places), d.places)

\* A dict is the sequence of its <<key, value>> items in insertion order.
\* The dicts studied carry the required fields of a DepositRequest.
DictKeys == {"user_id", "amount", "currency"}

DictMaps == [user_id : Users, amount : Decimals, currency : Currencies]

AsDict(m, order) == [i \in DOMAIN order |-> <<order[i], m[order[i]]>>]

\* the field order of the schema, in which model_dump writes the dict
DumpedDicts == {AsDict(m, <<"user_id", "amount", "currency">>) : m \in DictMaps}

\* the same items inserted in any order
Dicts ==
    {AsDict(m, order) :
       m \in DictMaps,
       order \in {o \in [1..Cardinality(DictKeys) -> DictKeys] :
                    \A i, j \in 1..Cardinality(DictKeys) :
                       i # j => o[i] # o[j]}}

DictValue(d, k) == d[CHOOSE i \in DOMAIN d : d[i][1] = k][2]

\* _json_default: a Decimal is written as str(value); strings are written
\* as they are
json_default(d, k) ==
    IF k = "amount" THEN str_Decimal(DictValue(d, k)) ELSE DictValue(d, k)

\* json.dumps(payload, sort_keys=True, separators=(",", ":"),
\* default=_json_default): the items in the order of their keys
json_dumps(d) ==
    LET ks == SelectSeq(SortedKeys, LAMBDA f : \E i \in DOMAIN d : d[i][1] = f)
    IN  [i \in 1..Len(ks) |-> <<ks[i], json_default(d, ks[i])>>]

\* hash_request_payload on a dict (the text stands for its digest)
hash_request_dict(d) == json_dumps(d)

\* ----------------------------------------------------------------- rows
\* Account row as created by get_or_create_*: zero balances, version 1
\* (the first value of a version_id_col)
NewAccount(user_id, currency, type) ==
    [user_id |-> user_id, currency |-> currency, type |-> type,
     balance |-> 0, available_balance |-> 0, version |-> 1]

\* the Account object a session holds for row `id`
Loaded(id, row, new) ==
    [id |-> id, user_id |-> row.user_id, currency |-> row.currency,
     type |-> row.type, balance |-> row.balance,
     available_balance |-> row.available_balance,
     version |-> row.version, new |-> new]

\* Account.__table_args__: the CHECK constraints of the account table
ck_account(a) ==
    /\ a.balance >= 0
    /\ a.available_balance >= 0
    /\ a.available_balance <= a.balance

\* User row as UserService.create_user adds it (is_active defaults to True)
NewUser(payload) ==
    [email |-> payload.email, full_name |-> payload.full_name,
     is_active |-> TRUE]

\* User.id default uuid.uuid4: an id no user has
NewUserId == "n" \o ToString(Cardinality(DOMAIN users))

\* UserService.to_schema(user)
UserResponse(id, u) ==
    [id |-> id, email |-> u.email, full_name |-> u.full_name,
     is_active |-> u.is_active]

\* user_schema.model_dump_json()
user_dump_json(s) ==
    <<s.id, s.email, s.full_name, IF s.is_active THEN "true" ELSE "false">>

\* UserResponse.model_validate_json(existing_key.response_body)
user_validate_json(b) ==
    [id |-> b[1], email |-> b[2], full_name |-> b[3], is_active |-> b[4] = "true"]

\* TransactionResponse.model_validate(transaction)
TransactionResponse(t) ==
    [id |-> t.id, reference |-> t.reference, user_id |-> t.user_id,
     account_id |-> t.account_id, type |-> t.type, status |-> t.status,
     amount |-> t.amount, currency |-> t.currency,
     context_data |-> t.context_data]

\* transaction_schema.model_dump_json(): the Decimal is written as a string
model_dump_json(s) ==
    <<s.id, s.user_id, s.account_id, s.type, s.status,
      DecimalStr(s.amount), s.currency, s.context_data, s.reference>>

ParseDecimal(str) == CHOOSE n \in 0..(4 * MaxAmount) : DecimalStr(n) = str

\* TransactionResponse.model_validate_json(existing.response_body)
model_validate_json(b) ==
    [id |-> b[1], user_id |-> b[2], account_id |-> b[3], type |-> b[4],
     status |-> b[5], amount |-> ParseDecimal(b[6]), currency |-> b[7],
     context_data |-> b[8], reference |-> b[9]]

\* uuid4().hex: the reference generated for the n-th Transaction, a text no
\* other Transaction and no request carries
uuid4_hex(n) == "hex" \o ToString(n)

\* ---------------------------------------------------------------- seeds
\* The store after construction is empty but for the registered users.  A
\* run may also start from the store two sequential deposits leave behind,
\*     deposit(u1, 2, KES) under key "ka", deposit(u2, 1, KES) under "kb",
\* which the empty run reaches by those two requests.
SeedKeys == {"ka", "kb"}

\* the registered users
SeedUsers ==
    ("u1" :> [email |-> "a@x", full_name |-> "A", is_active |-> TRUE])
 @@ ("u2" :> [email |-> "b@x", full_name |-> "B", is_active |-> TRUE])

FundedAccounts ==
    (1 :> [user_id |-> "u1", currency |-> "KES", type |-> "user",
           balance |-> 2, available_balance |-> 2, version |-> 2])
 @@ (2 :> [user_id |-> "", currency |-> "KES", type |-> "treasury",
           balance |-> 3, available_balance |-> 3, version |-> 3])
 @@ (3 :> [user_id |-> "u2", currency |-> "KES", type |-> "user",
           balance |-> 1, available_balance |-> 1, version |-> 2])

FundedTransactions ==
    << [id |-> 1, reference |-> uuid4_hex(1), user_id |-> "u1",
        account_id |-> 1, type |-> "deposit",
        status |-> "completed", amount |-> 2, currency |-> "KES",
        context_data |-> <<"treasury_account_id", 2>>],
       [id |-> 2, reference |-> uuid4_hex(2), user_id |-> "u2",
        account_id |-> 3, type |-> "deposit",
        status |-> "completed", amount |-> 1, currency |-> "KES",
        context_data |-> <<"treasury_account_id", 2>>] >>

FundedEntries ==
    { [transaction_id |-> 1, account_id |-> 1, direction |-> "credit",
       amount |-> 2, balance_after |-> 2, available_balance_after |-> 2],
      [transaction_id |-> 1, account_id |-> 2, direction |-> "debit",
       amount |-> 2, balance_after |-> 2, available_balance_after |-> 2],
      [transaction_id |-> 2, account_id |-> 3, direction |-> "credit",
       amount |-> 1, balance_after |-> 1, available_balance_after |-> 1],
      [transaction_id |-> 2, account_id |-> 2, direction |-> "debit",
       amount |-> 1, balance_after |-> 3, available_balance_after |-> 3] }

SettledRow(hash, txn) ==
    [request_hash |-> hash, response_code |-> HTTP_201_CREATED,
     response_body |-> model_dump_json(TransactionResponse(txn)),
     locked |-> FALSE, locked_by |-> ""]

FundedIdem ==
    ("ka" :> SettledRow(hash_request_payload(
                 [user_id |-> "u1", amount |-> 2, currency |-> "KES",
                  reference |-> NoRef]),
                 FundedTransactions[1]))
 @@ ("kb" :> SettledRow(hash_request_payload(
                 [user_id |-> "u2", amount |-> 1, currency |-> "KES",
                  reference |-> NoRef]),
                 FundedTransactions[2]))

\* a key row as acquire_lock inserts it, committed without a response
PendingKey == "k1"
PendingPayload ==
    [user_id |-> "u1", amount |-> 1, currency |-> "KES", reference |-> NoRef]

PendingRow ==
    [request_hash |-> hash_request_payload(PendingPayload), response_code |-> 0,
     response_body |-> <<>>, locked |-> TRUE, locked_by |-> "api"]

\* the initial stores: "empty", "funded" (after the two deposits) and
\* "pending" (funded, with the pending key row)
SeedAccounts(s) == IF s = "empty" THEN <<>> ELSE FundedAccounts
SeedTransactions(s) == IF s = "empty" THEN <<>> ELSE FundedTransactions
SeedEntries(s) == IF s = "empty" THEN {} ELSE FundedEntries
SeedIdem(s) ==
    IF s = "empty" THEN <<>>
    ELSE IF s = "funded" THEN FundedIdem
    ELSE FundedIdem @@ (PendingKey :> PendingRow)

\* every seeded key was acquired at tick 0
SeedExpiry(s) == [k \in DOMAIN SeedIdem(s) |-> TtlTicks]

\* ------------------------------------------------------------- requests
\* A request that has not arrived.  code is the HTTP status of the response
\* (0: none yet); detail is the detail of a 400 or 409 and, for a 500, the
\* exception the handler turned into "Failed to process ...".
IdleRequest ==
    [pc |-> "idle", op |-> "", key |-> NoKey, payload |-> <<>>,
     during |-> {}, sawKey |-> FALSE, sawExpired |-> FALSE,
     expires_at |-> 0, keyRow |-> "none", objs |-> <<>>,
     held |-> {}, code |-> 0, detail |-> "", body |-> <<>>, replayed |-> FALSE,
     posted |-> FALSE]

\* no payload hash is under study
NoProbe == <<>>

Active(r) == req[r].pc \notin {"idle", "done"}
Done(r) == req[r].pc = "done"

Start ==
    /\ seed \in {"empty", "funded"}
    /\ users = SeedUsers
    /\ accounts = SeedAccounts(seed)
    /\ transactions = SeedTransactions(seed)
    /\ entries = SeedEntries(seed)
    /\ idem = SeedIdem(seed)
    /\ expiry = SeedExpiry(seed)
    /\ now = 0
    /\ supplied = {NoRef}
    /\ probe = NoProbe
    /\ req = [r \in Requests |-> IdleRequest]

\* runs whose requests all name the default currency
Init == Start /\ offered = {"KES"}

\* runs whose requests name any of the currencies
CurInit == Start /\ offered = Currencies

\* runs whose requests may supply a reference
RefInit ==
    /\ seed \in {"empty", "funded"}
    /\ users = SeedUsers
    /\ accounts = SeedAccounts(seed)
    /\ transactions = SeedTransactions(seed)
    /\ entries = SeedEntries(seed)
    /\ idem = SeedIdem(seed)
    /\ expiry = SeedExpiry(seed)
    /\ now = 0
    /\ supplied = References \cup {NoRef}
    /\ probe = NoProbe
    /\ req = [r \in Requests |-> IdleRequest]
    /\ offered = {"KES"}

\* runs on a store that may hold a pending key row
LockInit ==
    /\ seed \in {"empty", "pending"}
    /\ users = SeedUsers
    /\ accounts = SeedAccounts(seed)
    /\ transactions = SeedTransactions(seed)
    /\ entries = SeedEntries(seed)
    /\ idem = SeedIdem(seed)
    /\ expiry = SeedExpiry(seed)
    /\ now = 0
    /\ supplied = {NoRef}
    /\ probe = NoProbe
    /\ req = [r \in Requests |-> IdleRequest]
    /\ offered = {"KES"}

\* runs on an empty store in which only u1 is a registered user
GuestInit ==
    /\ seed = "empty"
    /\ users = [u \in {"u1"} |-> SeedUsers[u]]
    /\ accounts = SeedAccounts(seed)
    /\ transactions = SeedTransactions(seed)
    /\ entries = SeedEntries(seed)
    /\ idem = SeedIdem(seed)
    /\ expiry = SeedExpiry(seed)
    /\ now = 0
    /\ supplied = {NoRef}
    /\ probe = NoProbe
    /\ req = [r \in Requests |-> IdleRequest]
    /\ offered = {"KES"}

\* The response leaves the handler; the session is closed, which rolls back
\* whatever it had not committed and releases its row locks.
Respond(r, code, detail, body, replayed, posted) ==
    [req EXCEPT ![r] = [@ EXCEPT !.pc = "done", !.keyRow = "none",
                                 !.objs = <<>>, !.held = {},
                                 !.code = code, !.detail = detail,
                                 !.body = body, !.replayed = replayed,
                                 !.posted = posted]]

Goto(r, pc) == [req EXCEPT ![r].pc = pc]

\* --------------------------------------------------- idempotency gate
\* IdempotencyService.get_key: the committed row of `key`, if any
HasKey(key) == key \in DOMAIN idem

\* the row of `key` has no response and its expires_at has passed
Expired(key) ==
    /\ HasKey(key)
    /\ idem[key].response_body = <<>>
    /\ expiry[key] < now

\* a gate that takes no key for settled
SettledNever(row) == FALSE

\* existing.response_code is not None and existing.response_body is not None
Settled(row) == row.response_code # 0 /\ row.response_body # <<>>

\* a header check that lets a request without a key pass
MissingKeyNever(key) == FALSE

\* key = request.headers.get("Idempotency-Key"); if not key
MissingKey(key) == key = NoKey

\* _prepare_idempotent_operation up to the call of acquire_lock, run when
\* the request arrives: the header check, get_key, the hash comparison and
\* the replay of a settled key.
Arrive(r) ==
    /\ req[r].pc = "idle"
    /\ (r > 1) => (req[r - 1].pc # "idle")
    /\ \E op \in Ops, key \in KeyHeaders :
         \E payload \in {p \in Payloads(op) : /\ p.currency \in offered
                                              /\ p.reference \in supplied} :
           LET payload_hash == hash_request_payload(payload)
               arrived == [req EXCEPT ![r] = [@ EXCEPT !.op = op, !.key = key,
                                                 !.payload = payload,
                                                 !.during = {o \in Requests : Active(o)},
                                                 !.sawKey = HasKey(key),
                                                 !.sawExpired = Expired(key)]]
           IN  req' =
                 IF MissingKey(key)
                 THEN [arrived EXCEPT ![r] = [@ EXCEPT
                         !.pc = "done", !.code = HTTP_400_BAD_REQUEST,
                         !.detail = "Idempotency-Key header required"]]
                 ELSE IF HasKey(key) /\ idem[key].request_hash # payload_hash
                 THEN [arrived EXCEPT ![r] = [@ EXCEPT
                         !.pc = "done", !.code = HTTP_409_CONFLICT,
                         !.detail = "Idempotency key conflict"]]
                 ELSE IF HasKey(key) /\ Settled(idem[key])
                 THEN [arrived EXCEPT ![r] = [@ EXCEPT
                         !.pc = "done", !.code = idem[key].response_code,
                         !.body = <<model_validate_json(idem[key].response_body)>>,
                         !.replayed = TRUE]]
                 ELSE [arrived EXCEPT ![r].pc = "acquire"]
    /\ UNCHANGED <<seed, offered, supplied, probe, now, store>>

\* what blocks a statement of r: a row another live transaction holds
WaitsForKey(r, o) ==
    /\ req[r].pc = "insert_key"
    /\ req[o].keyRow = "inserted"
    /\ \/ req[o].key = req[r].key
       \/ hash_request_payload(req[o].payload) = hash_request_payload(req[r].payload)

\* IdempotencyService.acquire_lock, its SELECT and the existing-row branch
AcquireLock(r) ==
    /\ req[r].pc = "acquire"
    /\ LET key == req[r].key
           request_hash == hash_request_payload(req[r].payload)
       IN  req' =
             IF HasKey(key)
             THEN IF /\ idem[key].request_hash # request_hash
                     /\ idem[key].response_body = <<>>
                  THEN Respond(r, HTTP_409_CONFLICT, "Idempotency key conflict",
                               <<>>, FALSE, FALSE)
                  ELSE [req EXCEPT ![r] = [@ EXCEPT !.keyRow = "existing",
                                                    !.expires_at = now + TtlTicks,
                                                    !.pc = "first"]]
             ELSE Goto(r, "insert_key")
    /\ UNCHANGED <<seed, offered, supplied, probe, now, store>>

\* an INSERT of the key row that is committed on its own, outside the
\* transaction of the request
InsertKeyAutocommit(r) ==
    /\ req[r].pc = "insert_key"
    /\ LET key == req[r].key
           request_hash == hash_request_payload(req[r].payload)
           clash == \/ HasKey(key)
                    \/ \E k \in DOMAIN idem : idem[k].request_hash = request_hash
           row == [request_hash |-> request_hash, response_code |-> 0,
                   response_body |-> <<>>, locked |-> TRUE, locked_by |-> "api"]
       IN  /\ req' =
                IF clash
                THEN Respond(r, HTTP_500_INTERNAL_SERVER_ERROR, "IntegrityError",
                             <<>>, FALSE, FALSE)
                ELSE [req EXCEPT ![r] = [@ EXCEPT !.keyRow = "existing",
                                                  !.pc = "first"]]
           /\ idem' = IF clash THEN idem
                      ELSE [k \in DOMAIN idem \cup {key} |->
                               IF k = key THEN row ELSE idem[k]]
           /\ expiry' = IF clash THEN expiry
                        ELSE [k \in DOMAIN idem \cup {key} |->
                                 IF k = key THEN now + TtlTicks ELSE expiry[k]]
    /\ UNCHANGED <<seed, offered, supplied, probe, now, users, accounts, transactions, entries>>

\* IdempotencyService.acquire_lock, the INSERT of the new row (flush).  The
\* INSERT waits while another live transaction holds the same key or the
\* same request_hash (uq_idempotency_request_hash) uncommitted; against a
\* committed row it raises IntegrityError, which _prepare_idempotent_operation
\* does not catch.
InsertKey(r) ==
    /\ req[r].pc = "insert_key"
    /\ ~ \E o \in Requests \ {r} : WaitsForKey(r, o)
    /\ LET key == req[r].key
           request_hash == hash_request_payload(req[r].payload)
       IN  req' =
             IF \/ HasKey(key)
                \/ \E k \in DOMAIN idem : idem[k].request_hash = request_hash
             THEN Respond(r, HTTP_500_INTERNAL_SERVER_ERROR, "IntegrityError",
                          <<>>, FALSE, FALSE)
             ELSE [req EXCEPT ![r] = [@ EXCEPT !.keyRow = "inserted",
                                               !.expires_at = now + TtlTicks,
                                               !.pc = "first"]]
    /\ UNCHANGED <<seed, offered, supplied, probe, now, store>>

\* ------------------------------------------------------ account registry
\* the user whose account a request resolves first and second
FirstUser(r) ==
    IF req[r].op = "transfer" THEN req[r].payload.source_user_id
    ELSE req[r].payload.user_id

SecondUser(r) ==
    IF req[r].op = "transfer" THEN req[r].payload.destination_user_id ELSE ""

SecondType(r) ==
    CASE req[r].op = "deposit" -> "treasury"
      [] req[r].op = "withdraw" -> "external"
      [] req[r].op = "transfer" -> "user"

\* objects of r's session that r inserted itself (not yet committed)
OwnNew(r) == {i \in DOMAIN req[r].objs : req[r].objs[i].new}

UsedIds ==
    DOMAIN accounts \cup
    UNION {{req[r].objs[i].id : i \in OwnNew(r)} : r \in Requests}

\* Account.id default uuid.uuid4: an id no row has
FreshId ==
    CHOOSE i \in AccountIds \ UsedIds : \A j \in AccountIds \ UsedIds : i <= j

\* SELECT ... WHERE user_id = :user_id AND currency = :currency, as r's
\* session sees it: committed rows and its own inserts
UserAccountObjs(r, user_id, currency) ==
    {Loaded(id, accounts[id], FALSE) :
        id \in {a \in DOMAIN accounts : /\ accounts[a].user_id = user_id
                                        /\ accounts[a].currency = currency}}
    \cup {req[r].objs[i] : i \in {j \in OwnNew(r) :
              /\ req[r].objs[j].user_id = user_id
              /\ req[r].objs[j].currency = currency}}

\* SELECT ... WHERE type = :type AND currency = :currency
SystemAccountObjs(type, currency) ==
    {Loaded(id, accounts[id], FALSE) :
        id \in {a \in DOMAIN accounts : /\ accounts[a].type = type
                                        /\ accounts[a].currency = currency}}

\* r's INSERT of a user account waits for a live transaction that inserted
\* an account of the same (user_id, currency): uq_user_currency
WaitsForAccount(r, o) ==
    /\ \/ req[r].pc = "insert_first"
       \/ req[r].pc = "insert_second" /\ req[r].op = "transfer"
    /\ LET user_id == IF req[r].pc = "insert_first" THEN FirstUser(r)
                      ELSE SecondUser(r)
       IN  \E i \in OwnNew(o) :
              /\ req[o].objs[i].user_id = user_id
              /\ req[o].objs[i].currency = req[r].payload.currency

\* r's SELECT ... FOR UPDATE waits for the transaction holding the row lock
WaitsForLock(r, o) ==
    \/ req[r].pc = "lock_first" /\ req[r].objs[1].id \in req[o].held
    \/ req[r].pc = "lock_second" /\ req[r].objs[2].id \in req[o].held

WaitsFor(r, o) ==
    /\ r # o
    /\ Active(r) /\ Active(o)
    /\ WaitsForKey(r, o) \/ WaitsForAccount(r, o) \/ WaitsForLock(r, o)

Blocked(r) == \E o \in Requests : WaitsFor(r, o)

RECURSIVE WaitClosure(_, _)
WaitClosure(S, n) ==
    IF n = 0 THEN S
    ELSE WaitClosure(S \cup {o \in Requests : \E w \in S : WaitsFor(w, o)}, n - 1)

\* r waits, directly or through others, for a transaction that waits for r
Deadlocked(r) ==
    r \in WaitClosure({o \in Requests : WaitsFor(r, o)}, MaxReq)

\* a transfer that compares no ids
SameAccountNever(objs) == FALSE

\* transfer(): source_account_id == destination_account_id
SameAccount(objs) == Len(objs) = 2 /\ objs[1].id = objs[2].id

\* an engine that takes any amount
InvalidAmountNever(amount) == FALSE

\* if amount <= Decimal("0")
InvalidAmount(amount) == amount <= 0

\* the message of the ValueError raised for such an amount
AmountMessage(op) ==
    CASE op = "deposit" -> "Deposit amount must be positive"
      [] op = "transfer" -> "Transfer amount must be positive"
      [] op = "withdraw" -> "Withdrawal amount must be positive"

\* The first statements of the operation: deposit() and withdraw() check
\* the amount and then call get_or_create_user_account, whose SELECT this
\* is; transfer_funds calls get_or_create_user_account for the source.
ResolveFirst(r) ==
    /\ req[r].pc = "first"
    /\ req[r].op \in Ops
    /\ LET found == UserAccountObjs(r, FirstUser(r), req[r].payload.currency)
       IN  req' =
             IF req[r].op # "transfer" /\ InvalidAmount(req[r].payload.amount)
             THEN Respond(r, HTTP_400_BAD_REQUEST, AmountMessage(req[r].op),
                          <<>>, FALSE, FALSE)
             ELSE IF found # {}
             THEN [req EXCEPT ![r] = [@ EXCEPT
                     !.objs = <<CHOOSE o \in found : TRUE>>, !.pc = "second"]]
             ELSE Goto(r, "insert_first")
    /\ UNCHANGED <<seed, offered, supplied, probe, now, store>>

\* get_or_create_user_account, the INSERT (flush) of the missing account.
\* IntegrityError (the unique constraint, or the foreign key to user) is
\* caught: session.rollback(), then ValueError("Unable to create account").
InsertUserAccount(r, user_id, next) ==
    /\ ~ Blocked(r)
    /\ AccountIds \ UsedIds # {}
    /\ LET currency == req[r].payload.currency
           taken == \E a \in DOMAIN accounts : /\ accounts[a].user_id = user_id
                                               /\ accounts[a].currency = currency
       IN  req' =
             IF taken \/ user_id \notin DOMAIN users
             THEN Respond(r, HTTP_400_BAD_REQUEST, "Unable to create account",
                          <<>>, FALSE, FALSE)
             ELSE [req EXCEPT ![r] = [@ EXCEPT
                     !.objs = Append(@, Loaded(FreshId,
                                  NewAccount(user_id, currency, "user"), TRUE)),
                     !.pc = next]]
    /\ UNCHANGED <<seed, offered, supplied, probe, now, store>>

InsertFirst(r) ==
    /\ req[r].pc = "insert_first"
    /\ InsertUserAccount(r, FirstUser(r), "second")

\* The second account: the destination's account (transfer_funds), the
\* treasury account (deposit) or the external account (withdraw), its
\* SELECT.  scalar_one_or_none raises MultipleResultsFound on two rows.
\* With both accounts resolved transfer() compares their ids.
ResolveSecond(r) ==
    /\ req[r].pc = "second"
    /\ LET currency == req[r].payload.currency
           found == IF req[r].op = "transfer"
                    THEN UserAccountObjs(r, SecondUser(r), currency)
                    ELSE SystemAccountObjs(SecondType(r), currency)
           both == Append(req[r].objs, CHOOSE o \in found : TRUE)
       IN  req' =
             IF found = {} THEN Goto(r, "insert_second")
             ELSE IF Cardinality(found) > 1
             THEN Respond(r, HTTP_500_INTERNAL_SERVER_ERROR,
                          "MultipleResultsFound", <<>>, FALSE, FALSE)
             ELSE IF req[r].op = "transfer" /\ SameAccount(both)
             THEN Respond(r, HTTP_400_BAD_REQUEST,
                          "Cannot transfer to the same account", <<>>, FALSE, FALSE)
             ELSE [req EXCEPT ![r] = [@ EXCEPT !.objs = both,
                                               !.pc = "lock_first"]]
    /\ UNCHANGED <<seed, offered, supplied, probe, now, store>>

\* an INSERT of the system account that is committed at once
InsertSystemAccountCommitted(r) ==
    /\ AccountIds \ UsedIds # {}
    /\ req' = [req EXCEPT ![r] = [@ EXCEPT
                 !.objs = Append(@, Loaded(FreshId,
                              NewAccount("", req[r].payload.currency,
                                         SecondType(r)), FALSE)),
                 !.pc = "lock_first"]]
    /\ accounts' = [id \in DOMAIN accounts \cup {FreshId} |->
                      IF id = FreshId
                      THEN NewAccount("", req[r].payload.currency, SecondType(r))
                      ELSE accounts[id]]
    /\ UNCHANGED <<seed, offered, supplied, probe, now, users, transactions, entries, idem, expiry>>

\* get_or_create_treasury_account / get_or_create_external_account, the
\* INSERT: no constraint covers rows whose user_id is NULL
InsertSystemAccount(r) ==
    /\ AccountIds \ UsedIds # {}
    /\ req' = [req EXCEPT ![r] = [@ EXCEPT
                 !.objs = Append(@, Loaded(FreshId,
                              NewAccount("", req[r].payload.currency,
                                         SecondType(r)), TRUE)),
                 !.pc = "lock_first"]]
    /\ UNCHANGED <<seed, offered, supplied, probe, now, store>>

InsertSecond(r) ==
    /\ req[r].pc = "insert_second"
    /\ IF req[r].op = "transfer"
       THEN InsertUserAccount(r, SecondUser(r), "lock_first")
       ELSE InsertSystemAccount(r)

\* ------------------------------------------------------- posting engine
\* LedgerService._lock_account: SELECT ... FOR UPDATE.  The row is in the
\* session already, so the object returned is the one loaded before.
\* transfer() compares the two ids and checks the amount before it locks
\* the source.
LockFirst(r) ==
    /\ req[r].pc = "lock_first"
    /\ IF req[r].op = "transfer" /\ SameAccount(req[r].objs)
       THEN req' = Respond(r, HTTP_400_BAD_REQUEST,
                           "Cannot transfer to the same account",
                           <<>>, FALSE, FALSE)
       ELSE IF req[r].op = "transfer" /\ InvalidAmount(req[r].payload.amount)
       THEN req' = Respond(r, HTTP_400_BAD_REQUEST, AmountMessage(req[r].op),
                           <<>>, FALSE, FALSE)
       ELSE /\ ~ Blocked(r)
            /\ req' = [req EXCEPT ![r] = [@ EXCEPT
                         !.held = @ \cup {req[r].objs[1].id},
                         !.pc = "lock_second"]]
    /\ UNCHANGED <<seed, offered, supplied, probe, now, store>>

LockSecond(r) ==
    /\ req[r].pc = "lock_second"
    /\ ~ Blocked(r)
    /\ req' = [req EXCEPT ![r] = [@ EXCEPT !.held = @ \cup {req[r].objs[2].id},
                                           !.pc = "post"]]
    /\ UNCHANGED <<seed, offered, supplied, probe, now, store>>

\* a debit that lowers the available balance only
DebitAvailableOnly(o, amount) ==
    [o EXCEPT !.available_balance = @ - amount]

\* a debit that lowers the balance only
DebitBalanceOnly(o, amount) ==
    [o EXCEPT !.balance = @ - amount]

\* account.balance -= amount; account.available_balance -= amount
Debit(o, amount) ==
    [o EXCEPT !.balance = @ - amount, !.available_balance = @ - amount]

\* a credit that raises the balance only
CreditBalanceOnly(o, amount) ==
    [o EXCEPT !.balance = @ + amount]

\* account.balance += amount; account.available_balance += amount
Credit(o, amount) ==
    [o EXCEPT !.balance = @ + amount, !.available_balance = @ + amount]

\* mutations in which a transfer debits the source and credits nobody
MutateDebitOnly(op, objs, amount) ==
    IF op = "deposit"
    THEN <<Credit(objs[1], amount), Credit(objs[2], amount)>>
    ELSE IF op = "transfer"
    THEN <<Debit(objs[1], amount), objs[2]>>
    ELSE <<Debit(objs[1], amount), Credit(objs[2], amount)>>

\* mutations in which a deposit leaves the treasury as it was
MutateUserOnly(op, objs, amount) ==
    IF op = "deposit"
    THEN <<Credit(objs[1], amount), objs[2]>>
    ELSE <<Debit(objs[1], amount), Credit(objs[2], amount)>>

\* the balance mutations of deposit / transfer / withdraw on the two
\* objects: deposit raises the user's and the treasury's balance, transfer
\* and withdraw lower the first and raise the second
Mutate(op, objs, amount) ==
    IF op = "deposit"
    THEN <<Credit(objs[1], amount), Credit(objs[2], amount)>>
    ELSE <<Debit(objs[1], amount), Credit(objs[2], amount)>>

\* a check that lets a debit exceed the available balance by one
InsufficientByTwo(op, objs, amount) ==
    op # "deposit" /\ objs[1].available_balance + 1 < amount

\* an engine without the available-balance check
NeverInsufficient(op, objs, amount) == FALSE

\* if account.available_balance < amount: raise ValueError("Insufficient
\* available balance") (transfer and withdraw)
InsufficientFunds(op, objs, amount) ==
    op # "deposit" /\ objs[1].available_balance < amount

\* a transfer that compares no currencies
CurrencyMismatchNever(op, objs, currency) == FALSE

\* if source_account.currency != currency or destination_account.currency
\* != currency (transfer)
CurrencyMismatch(op, objs, currency) ==
    /\ op = "transfer"
    /\ objs[1].currency # currency \/ objs[2].currency # currency

\* a flush without the version predicate
NeverStale(o) == FALSE

\* version_id_col: UPDATE account ... WHERE id = :id AND version = :loaded
\* matches no row when the stored version moved on (StaleDataError)
StaleVersion(o) == ~ o.new /\ accounts[o.id].version # o.version

\* a flush that leaves the version column as it was loaded
FlushedSameVersion(o) ==
    [user_id |-> o.user_id, currency |-> o.currency, type |-> o.type,
     balance |-> o.balance, available_balance |-> o.available_balance,
     version |-> o.version]

\* the row a flushed object leaves in the table
Flushed(o) ==
    [user_id |-> o.user_id, currency |-> o.currency, type |-> o.type,
     balance |-> o.balance, available_balance |-> o.available_balance,
     version |-> o.version + 1]

TransactionType(op) ==
    CASE op = "deposit" -> "deposit"
      [] op = "transfer" -> "transfer"
      [] op = "withdraw" -> "withdrawal"

\* a context that names every counterparty as the treasury
ContextKeyTreasury(op) == "treasury_account_id"

\* metadata={"treasury_account_id" / "destination_account_id" /
\* "external_account_id": str(account.id)}
ContextKey(op) ==
    CASE op = "deposit" -> "treasury_account_id"
      [] op = "transfer" -> "destination_account_id"
      [] op = "withdraw" -> "external_account_id"

\* a Transaction stored with the default of the status column
CreateTransactionPending(id, user_id, op, objs, amount, currency, reference) ==
    [id |-> id,
     reference |-> IF reference # NoRef THEN reference ELSE uuid4_hex(id),
     user_id |-> user_id, account_id |-> objs[1].id,
     type |-> TransactionType(op), status |-> "pending",
     amount |-> amount, currency |-> currency,
     context_data |-> <<ContextKey(op), objs[2].id>>]

\* LedgerService._create_transaction (reference or uuid4().hex)
CreateTransaction(id, user_id, op, objs, amount, currency, reference) ==
    [id |-> id,
     reference |-> IF reference # NoRef THEN reference ELSE uuid4_hex(id),
     user_id |-> user_id, account_id |-> objs[1].id,
     type |-> TransactionType(op), status |-> "completed",
     amount |-> amount, currency |-> currency,
     context_data |-> <<ContextKey(op), objs[2].id>>]

\* an entry that records the balances the account had before a credit
CreateLedgerEntryBefore(txn, o, direction, amount) ==
    [transaction_id |-> txn.id, account_id |-> o.id, direction |-> direction,
     amount |-> amount, balance_after |-> o.balance - amount,
     available_balance_after |-> o.available_balance - amount]

\* LedgerService._create_ledger_entry
CreateLedgerEntry(txn, o, direction, amount) ==
    [transaction_id |-> txn.id, account_id |-> o.id, direction |-> direction,
     amount |-> amount, balance_after |-> o.balance,
     available_balance_after |-> o.available_balance]

\* entries with the directions of a withdrawal exchanged
EntriesSwapped(op, txn, objs, amount) ==
    IF op = "transfer"
    THEN {CreateLedgerEntry(txn, objs[1], "debit", amount),
          CreateLedgerEntry(txn, objs[2], "credit", amount)}
    ELSE {CreateLedgerEntry(txn, objs[1], "credit", amount),
          CreateLedgerEntry(txn, objs[2], "debit", amount)}

\* entries that credit both accounts
CreditEntries(op, txn, objs, amount) ==
    {CreateLedgerEntry(txn, objs[1], "credit", amount),
     CreateLedgerEntry(txn, objs[2], "credit", amount)}

\* the two entries of deposit / transfer / withdraw
LedgerEntries(op, txn, objs, amount) ==
    IF op = "deposit"
    THEN {CreateLedgerEntry(txn, objs[1], "credit", amount),
          CreateLedgerEntry(txn, objs[2], "debit", amount)}
    ELSE {CreateLedgerEntry(txn, objs[1], "debit", amount),
          CreateLedgerEntry(txn, objs[2], "credit", amount)}

\* Transaction.reference is unique (uq_transaction_reference): the INSERT
\* of a Transaction whose reference a stored one has raises IntegrityError
ReferenceTaken(reference) ==
    \E i \in 1..Len(transactions) : transactions[i].reference = reference

\* IdempotencyService.store_response on the row acquire_lock left
StoreResponse(request_hash, response_code, response_body) ==
    [request_hash |-> request_hash, response_code |-> response_code,
     response_body |-> response_body, locked |-> FALSE, locked_by |-> ""]

\* With both rows locked: the checks of transfer / withdraw, the balance
\* mutations, _create_transaction (whose flush writes the two accounts and
\* the idempotency row), the ledger entries, store_response and
\* session.commit(); or the rollback of the except branches.  A caller of
\* the service that went through no gate has no idempotency row to write.
\* The CHECK constraints of the account table never reject a flushed row
\* (C4_Theorem shows every row the engine writes to satisfy ck_account), so
\* the flush has no such branch.
Post(r) ==
    /\ req[r].pc = "post"
    /\ LET op == req[r].op
           key == req[r].key
           amount == req[r].payload.amount
           currency == req[r].payload.currency
           request_hash == hash_request_payload(req[r].payload)
           objs == req[r].objs
           after == Mutate(op, objs, amount)
           user_id == IF op = "transfer" THEN objs[1].user_id
                      ELSE req[r].payload.user_id
           txn == CreateTransaction(Len(transactions) + 1, user_id, op,
                                    after, amount, currency,
                                    req[r].payload.reference)
           schema == TransactionResponse(txn)
           written == {after[1].id, after[2].id}
       IN  IF CurrencyMismatch(op, objs, currency)
           THEN /\ req' = Respond(r, HTTP_400_BAD_REQUEST,
                                  "Currency mismatch between accounts",
                                  <<>>, FALSE, FALSE)
                /\ UNCHANGED <<seed, offered, supplied, probe, now, store>>
           ELSE IF InsufficientFunds(op, objs, amount)
           THEN /\ req' = Respond(r, HTTP_400_BAD_REQUEST,
                                  "Insufficient available balance",
                                  <<>>, FALSE, FALSE)
                /\ UNCHANGED <<seed, offered, supplied, probe, now, store>>
           ELSE IF StaleVersion(objs[1]) \/ StaleVersion(objs[2])
           THEN /\ req' = Respond(r, HTTP_500_INTERNAL_SERVER_ERROR,
                                  "StaleDataError", <<>>, FALSE, FALSE)
                /\ UNCHANGED <<seed, offered, supplied, probe, now, store>>
           ELSE IF \/ /\ req[r].keyRow = "existing"
                      /\ \E k \in DOMAIN idem \ {key} :
                             idem[k].request_hash = request_hash
                   \/ ReferenceTaken(txn.reference)
           THEN /\ req' = Respond(r, HTTP_500_INTERNAL_SERVER_ERROR,
                                  "IntegrityError", <<>>, FALSE, FALSE)
                /\ UNCHANGED <<seed, offered, supplied, probe, now, store>>
           ELSE /\ accounts' =
                     [id \in DOMAIN accounts \cup written |->
                        IF id = after[1].id THEN Flushed(after[1])
                        ELSE IF id = after[2].id THEN Flushed(after[2])
                        ELSE accounts[id]]
                /\ transactions' = Append(transactions, txn)
                /\ entries' = entries \cup LedgerEntries(op, txn, after, amount)
                /\ idem' =
                     IF req[r].keyRow = "none" THEN idem
                     ELSE [k \in DOMAIN idem \cup {key} |->
                             IF k = key
                             THEN StoreResponse(request_hash, HTTP_201_CREATED,
                                                model_dump_json(schema))
                             ELSE idem[k]]
                /\ expiry' =
                     IF req[r].keyRow = "none" THEN expiry
                     ELSE [k \in DOMAIN idem \cup {key} |->
                             IF k = key THEN req[r].expires_at ELSE expiry[k]]
                /\ req' = Respond(r, HTTP_201_CREATED, "", <<schema>>,
                                  FALSE, TRUE)
                /\ UNCHANGED <<seed, offered, supplied, probe, now, users>>

\* The store breaks a cycle of waiting transactions by failing one of them
\* (deadlock detected); the error is no ValueError, so the request ends
\* with 500 and its transaction is rolled back.
DeadlockAbort(r) ==
    /\ Active(r)
    /\ Deadlocked(r)
    /\ req' = Respond(r, HTTP_500_INTERNAL_SERVER_ERROR, "DeadlockDetected",
                      <<>>, FALSE, FALSE)
    /\ UNCHANGED <<seed, offered, supplied, probe, now, store>>

\* ------------------------------------------------------------ user route
\* create_user (POST /users) up to the call of acquire_lock: the header
\* check, get_key, the hash comparison and the replay of a settled key
ArriveUser(r) ==
    /\ req[r].pc = "idle"
    /\ (r > 1) => (req[r - 1].pc # "idle")
    /\ \E key \in KeyHeaders, payload \in UserCreate :
         LET payload_hash == hash_request_payload(payload)
             arrived == [req EXCEPT ![r] = [@ EXCEPT !.op = "create_user",
                                               !.key = key,
                                               !.payload = payload,
                                               !.during = {o \in Requests : Active(o)},
                                               !.sawKey = HasKey(key),
                                               !.sawExpired = Expired(key)]]
         IN  req' =
               IF MissingKey(key)
               THEN [arrived EXCEPT ![r] = [@ EXCEPT
                       !.pc = "done", !.code = HTTP_400_BAD_REQUEST,
                       !.detail = "Idempotency-Key header required"]]
               ELSE IF HasKey(key) /\ idem[key].request_hash # payload_hash
               THEN [arrived EXCEPT ![r] = [@ EXCEPT
                       !.pc = "done", !.code = HTTP_409_CONFLICT,
                       !.detail = "Idempotency key conflict"]]
               ELSE IF HasKey(key) /\ Settled(idem[key])
               THEN [arrived EXCEPT ![r] = [@ EXCEPT
                       !.pc = "done", !.code = idem[key].response_code,
                       !.body = <<user_validate_json(idem[key].response_body)>>,
                       !.replayed = TRUE]]
               ELSE [arrived EXCEPT ![r].pc = "acquire"]
    /\ UNCHANGED <<seed, offered, supplied, probe, now, store>>

\* User.email is unique: the INSERT of a user whose email a stored user has
\* raises IntegrityError
EmailTaken(email) == \E u \in DOMAIN users : users[u].email = email

\* create_user after acquire_lock: UserService.create_user (whose flush
\* writes the key row and the user; any IntegrityError of it is caught,
\* rolled back and raised as ValueError("Email already exists"), answered
\* 409), store_response and session.commit()
CreateUser(r) ==
    /\ req[r].pc = "first"
    /\ req[r].op = "create_user"
    /\ LET key == req[r].key
           request_hash == hash_request_payload(req[r].payload)
           id == NewUserId
           user == NewUser(req[r].payload)
           schema == UserResponse(id, user)
       IN  IF \/ EmailTaken(req[r].payload.email)
              \/ /\ req[r].keyRow = "existing"
                 /\ \E k \in DOMAIN idem \ {key} :
                        idem[k].request_hash = request_hash
           THEN /\ req' = Respond(r, HTTP_409_CONFLICT, "Email already exists",
                                  <<>>, FALSE, FALSE)
                /\ UNCHANGED <<seed, offered, supplied, probe, now, store>>
           ELSE /\ users' = [u \in DOMAIN users \cup {id} |->
                               IF u = id THEN user ELSE users[u]]
                /\ idem' =
                     [k \in DOMAIN idem \cup {key} |->
                        IF k = key
                        THEN StoreResponse(request_hash, HTTP_201_CREATED,
                                           user_dump_json(schema))
                        ELSE idem[k]]
                /\ expiry' =
                     [k \in DOMAIN idem \cup {key} |->
                        IF k = key THEN req[r].expires_at ELSE expiry[k]]
                /\ req' = Respond(r, HTTP_201_CREATED, "", <<schema>>,
                                  FALSE, FALSE)
                /\ UNCHANGED <<seed, offered, supplied, probe, now, accounts,
                               transactions, entries>>

\* The client goes away while the handler waits on the database: the task
\* is cancelled (CancelledError passes `except Exception`), no response is
\* sent, and leaving `async with session_factory()` closes the session,
\* which rolls back what it had not committed.
Cancel(r) ==
    /\ Active(r)
    /\ req' = Respond(r, 0, "CancelledError", <<>>, FALSE, FALSE)
    /\ UNCHANGED <<seed, offered, supplied, probe, now, store>>

\* --------------------------------------------------------- read endpoint
\* user ids a balance may be asked for: the path takes any UUID
Readers == Users \cup {"u3"}

\* ORDER BY created_at: rows served one after the other get their ids in
\* the order of their creation
RECURSIVE Ascending(_)
Ascending(ids) ==
    IF ids = {} THEN <<>>
    ELSE LET first == CHOOSE i \in ids : \A j \in ids : i <= j
         IN  <<first>> \o Ascending(ids \ {first})

\* a listing that leaves out the WHERE clause
ListAllAccounts(user_id) == Ascending(DOMAIN accounts)

\* AccountService.list_user_accounts: SELECT ... WHERE user_id = :user_id
\* ORDER BY created_at
list_user_accounts(user_id) ==
    Ascending({a \in DOMAIN accounts : accounts[a].user_id = user_id})

\* AccountService.to_schema
AccountResponse(id) ==
    [id |-> id, user_id |-> accounts[id].user_id,
     currency |-> accounts[id].currency, type |-> accounts[id].type,
     balance |-> accounts[id].balance,
     available_balance |-> accounts[id].available_balance]

\* the loop of get_user_balance_summary over the accounts listed: the
\* first account of a currency opens its CurrencyTotal, a later one is
\* added to it
RECURSIVE CurrencyTotals(_, _)
CurrencyTotals(listed, totals) ==
    IF listed = <<>> THEN totals
    ELSE LET account == accounts[Head(listed)]
         IN  CurrencyTotals(Tail(listed),
               IF account.currency \in DOMAIN totals
               THEN [totals EXCEPT ![account.currency] =
                       [balance |-> @.balance + account.balance,
                        available_balance |->
                           @.available_balance + account.available_balance]]
               ELSE [c \in DOMAIN totals \cup {account.currency} |->
                       IF c = account.currency
                       THEN [balance |-> account.balance,
                             available_balance |-> account.available_balance]
                       ELSE totals[c]])

\* AccountService.get_user_balance_summary
get_user_balance_summary(user_id) ==
    LET listed == list_user_accounts(user_id)
    IN  [user_id |-> user_id,
         accounts |-> [i \in 1..Len(listed) |-> AccountResponse(listed[i])],
         totals |-> CurrencyTotals(listed, <<>>)]

\* GET /balance/{user_id}: no key, no gate, one SELECT on the committed
\* rows and no commit
get_user_balance(r) ==
    /\ req[r].pc = "idle"
    /\ (r > 1) => (req[r - 1].pc # "idle")
    /\ \E user_id \in Readers :
         req' = [req EXCEPT ![r] = [@ EXCEPT
                   !.op = "balance",
                   !.payload = [user_id |-> user_id],
                   !.pc = "done",
                   !.code = HTTP_200_OK,
                   !.body = <<get_user_balance_summary(user_id)>>]]
    /\ UNCHANGED <<seed, offered, supplied, probe, now, store>>

\* ------------------------------------------------------- hashed payloads
\* a first request stores the hash of its payload under its key
\* (acquire_lock: request_hash=payload_hash)
StoreHash ==
    /\ probe.pc = "new"
    /\ probe' = [probe EXCEPT !.pc = "stored",
                              !.stored = hash_request_dict(probe.first)]
    /\ UNCHANGED <<seed, offered, supplied, now, store, req>>

\* a later request with the same key: _prepare_idempotent_operation
\* compares existing.request_hash with the hash of its payload and answers
\* 409 when they differ
Retry ==
    /\ probe.pc = "stored"
    /\ Len(probe.retries) < MaxReq
    /\ \E d \in Dicts :
         LET payload_hash == hash_request_dict(d)
         IN  probe' = [probe EXCEPT !.retries = Append(@,
                         [payload |-> d,
                          payload_hash |-> payload_hash,
                          code |-> IF probe.stored # payload_hash
                                   THEN HTTP_409_CONFLICT ELSE 0])]
    /\ UNCHANGED <<seed, offered, supplied, now, store, req>>

\* ---------------------------------------------------------- direct calls
\* amounts a caller of the service may pass: the schemas of the routes
\* admit positive amounts only (Field(gt=0)), the methods take any Decimal
CallAmounts == (0 - 1) .. MaxAmount

\* LedgerService.deposit / withdraw / transfer called by code that holds a
\* session of its own and went through no gate (as tests/
\* test_ledger_service.py does): deposit and withdraw with a user id,
\* transfer with the ids of two user accounts the caller resolved before.
\* The caller commits on success and treats an exception as the routes do.
Call(r) ==
    /\ req[r].pc = "idle"
    /\ (r > 1) => (req[r - 1].pc # "idle")
    /\ \E op \in Ops, amount \in CallAmounts, currency \in offered :
         \/ /\ op # "transfer"
            /\ \E user_id \in Users :
                 req' = [req EXCEPT ![r] = [@ EXCEPT
                           !.op = op,
                           !.payload = [user_id |-> user_id, amount |-> amount,
                                        currency |-> currency,
                                        reference |-> NoRef],
                           !.pc = "first"]]
         \/ /\ op = "transfer"
            /\ \E src, dst \in {a \in DOMAIN accounts :
                                    accounts[a].type = "user"} :
                 req' = [req EXCEPT ![r] = [@ EXCEPT
                           !.op = op,
                           !.payload =
                              [source_user_id |-> accounts[src].user_id,
                               destination_user_id |-> accounts[dst].user_id,
                               amount |-> amount, currency |-> currency,
                               reference |-> NoRef],
                           !.objs = <<Loaded(src, accounts[src], FALSE),
                                      Loaded(dst, accounts[dst], FALSE)>>,
                           !.pc = "lock_first"]]
    /\ UNCHANGED <<seed, offered, supplied, probe, now, store>>

\* ------------------------------------------------------- specifications
Next ==
    \E r \in Requests :
        \/ Arrive(r)
        \/ AcquireLock(r)
        \/ InsertKey(r)
        \/ ResolveFirst(r)
        \/ InsertFirst(r)
        \/ ResolveSecond(r)
        \/ InsertSecond(r)
        \/ LockFirst(r)
        \/ LockSecond(r)
        \/ Post(r)
        \/ DeadlockAbort(r)

Spec == Init /\ [][Next]_vars

\* requests one after the other: a request arrives only when no other is
\* being served
Quiet == \A r \in Requests : ~ Active(r)

SeqNext ==
    \E r \in Requests :
        \/ Quiet /\ Arrive(r)
        \/ AcquireLock(r)
        \/ InsertKey(r)
        \/ ResolveFirst(r)
        \/ InsertFirst(r)
        \/ ResolveSecond(r)
        \/ InsertSecond(r)
        \/ LockFirst(r)
        \/ LockSecond(r)
        \/ Post(r)

SeqSpec == Init /\ [][SeqNext]_vars

\* time passes
Tick ==
    /\ now < MaxNow
    /\ now' = now + 1
    /\ UNCHANGED <<seed, offered, supplied, probe, store, req>>

LockNext == SeqNext \/ Tick

\* requests served one after the other while time passes, on a store that
\* may hold a pending key row
LockSpec == LockInit /\ [][LockNext]_vars

\* concurrent requests in any of the currencies
CurSpec == CurInit /\ [][Next]_vars

\* concurrent requests, any of which may be cancelled at any step
CancelNext == Next \/ \E r \in Requests : Cancel(r)

CancelSpec == Init /\ [][CancelNext]_vars

\* requests served one after the other, some naming a user that is not
\* registered
GuestSpec == GuestInit /\ [][SeqNext]_vars

\* requests served one after the other, some supplying a reference
RefSpec == RefInit /\ [][SeqNext]_vars

\* requests served one after the other, user creations among them
UserNext ==
    \/ SeqNext
    \/ \E r \in Requests : \/ Quiet /\ ArriveUser(r)
                           \/ CreateUser(r)

UserSpec == Init /\ [][UserNext]_vars

\* requests and direct calls of the service, one after the other, in any of
\* the currencies
ServiceNext ==
    \/ SeqNext
    \/ \E r \in Requests : Quiet /\ Call(r)

ServiceSpec == CurInit /\ [][ServiceNext]_vars

\* requests in any of the currencies, one after the other, and balance
\* reads at any moment
ReadNext ==
    \/ SeqNext
    \/ \E r \in Requests : get_user_balance(r)

ReadSpec == CurInit /\ [][ReadNext]_vars

\* a payload whose hash is stored, and payloads retried on its key
HashInit ==
    /\ seed = "empty"
    /\ users = SeedUsers
    /\ accounts = SeedAccounts(seed)
    /\ transactions = SeedTransactions(seed)
    /\ entries = SeedEntries(seed)
    /\ idem = SeedIdem(seed)
    /\ expiry = SeedExpiry(seed)
    /\ now = 0
    /\ supplied = {NoRef}
    /\ offered = Currencies
    /\ req = [r \in Requests |-> IdleRequest]
    /\ \E d \in DumpedDicts :
         probe = [pc |-> "new", first |-> d, stored |-> <<>>, retries |-> <<>>]

HashNext == StoreHash \/ Retry

HashSpec == HashInit /\ [][HashNext]_vars

\* ---------------------------------------------------------------- claims
Posted == {r \in Requests : req[r].posted}

\* two executions of the same write: same endpoint, key and payload
SameWrite(a, b) ==
    /\ req[a].key # NoKey
    /\ req[a].key = req[b].key
    /\ req[a].op = req[b].op
    /\ req[a].payload = req[b].payload

HashUnused(r) ==
    \A k \in DOMAIN idem :
        k # req[r].key => idem[k].request_hash # hash_request_payload(req[r].payload)

\* C2: two executions of one valid write (K, P) that overlap, both starting
\* before K has a committed record, create exactly one Transaction and both
\* return 201 with the same body.
C2_Claim ==
    \A a, b \in Requests :
        (/\ a < b /\ Done(a) /\ Done(b) /\ SameWrite(a, b)
         /\ a \in req[b].during
         /\ ~ req[a].sawKey /\ ~ req[b].sawKey
         /\ req[a].op = "deposit"
         /\ HashUnused(a))
        => /\ req[a].code = HTTP_201_CREATED
           /\ req[b].code = HTTP_201_CREATED
           /\ req[a].body = req[b].body
           /\ Cardinality({r \in Posted : req[r].key = req[a].key}) = 1

\* C3: once K carries the committed record of a write with payload P1, a
\* request with K and a payload P2 # P1 is answered 409; serving it creates
\* no Transaction and no LedgerEntry, changes no account and leaves the
\* record of K as it was.
C3_Rejected ==
    \A a, b \in Requests :
        (/\ a < b /\ Done(a) /\ Done(b)
         /\ req[a].posted
         /\ req[b].key = req[a].key
         /\ req[b].payload # req[a].payload)
        => /\ req[b].code = HTTP_409_CONFLICT
           /\ ~ req[b].posted
           /\ idem[req[a].key] =
                StoreResponse(hash_request_payload(req[a].payload),
                              HTTP_201_CREATED,
                              model_dump_json(req[a].body[1]))

C3_Untouched ==
    \A r \in Requests :
        (req[r].pc # "done" /\ req'[r].pc = "done"
           /\ req'[r].code = HTTP_409_CONFLICT)
        => UNCHANGED store

C3_Theorem == [] C3_Rejected /\ [][C3_Untouched]_vars

C3_Witness ==
    \E a, b \in Requests :
        /\ a < b /\ Done(a) /\ Done(b)
        /\ req[a].posted
        /\ req[b].key = req[a].key
        /\ req[b].payload # req[a].payload
        /\ req[b].code = HTTP_409_CONFLICT

\* C4: every committed account has balance >= 0 and
\* 0 <= available_balance <= balance.
C4_Theorem == \A id \in DOMAIN accounts : ck_account(accounts[id])

C4_Witness ==
    /\ \E r \in Posted : req[r].op \in {"transfer", "withdraw"}
    /\ \E r \in Requests : req[r].detail = "Insufficient available balance"
    /\ \E id \in DOMAIN accounts :
          accounts[id].type = "user" /\ accounts[id].balance = 0

EntriesOf(id) == {e \in entries : e.transaction_id = id}

\* C5: every committed Transaction has exactly two ledger entries, one
\* DEBIT and one CREDIT, each of the Transaction's amount, and every
\* ledger entry belongs to a Transaction.
C5_Theorem ==
    /\ \A i \in 1..Len(transactions) :
          LET t == transactions[i]
              es == EntriesOf(t.id)
          IN  /\ Cardinality(es) = 2
              /\ Cardinality({e \in es : e.direction = "debit"}) = 1
              /\ Cardinality({e \in es : e.direction = "credit"}) = 1
              /\ \A e \in es : e.amount = t.amount
    /\ \A e \in entries :
          \E i \in 1..Len(transactions) : transactions[i].id = e.transaction_id

C5_Witness ==
    \E r \in Posted :
        /\ req[r].op = "transfer"
        /\ Cardinality(EntriesOf(req[r].body[1].id)) = 2

\* CREDIT counts +amount, DEBIT counts -amount
Signed(e) == IF e.direction = "credit" THEN e.amount ELSE 0 - e.amount

RECURSIVE SignedTotal(_)
SignedTotal(es) ==
    IF es = {} THEN 0
    ELSE LET e == CHOOSE x \in es : TRUE
         IN  Signed(e) + SignedTotal(es \ {e})

SignedSum(id) == SignedTotal({e \in entries : e.account_id = id})

\* C6 as stated: after any sequence of deposits, transfers and withdrawals
\* on a fresh store, every account's balance -- USER, TREASURY and EXTERNAL
\* alike -- equals the signed sum of its ledger entries.
C6_Claim ==
    seed = "empty" =>
        \A id \in DOMAIN accounts : accounts[id].balance = SignedSum(id)

\* C6: the balance of every USER and EXTERNAL account equals the signed sum
\* of its ledger entries (CREDIT +, DEBIT -); the balance of a TREASURY
\* account equals the negated signed sum, i.e. its DEBITs minus its CREDITs.
C6_Theorem ==
    \A id \in DOMAIN accounts :
        IF accounts[id].type = "treasury"
        THEN accounts[id].balance = 0 - SignedSum(id)
        ELSE accounts[id].balance = SignedSum(id)

C6_Witness ==
    /\ \E id \in DOMAIN accounts :
          /\ accounts[id].type = "treasury"
          /\ accounts[id].balance > 0
          /\ SignedSum(id) < 0
    /\ \E id \in DOMAIN accounts :
          /\ accounts[id].type = "user"
          /\ \E e \in entries : e.account_id = id /\ e.direction = "debit"
    /\ \E id \in DOMAIN accounts :
          accounts[id].type = "external" /\ accounts[id].balance > 0

RECURSIVE BalanceTotal(_)
BalanceTotal(ids) ==
    IF ids = {} THEN 0
    ELSE LET id == CHOOSE x \in ids : TRUE
         IN  accounts[id].balance + BalanceTotal(ids \ {id})

TotalOf(type, currency) ==
    BalanceTotal({id \in DOMAIN accounts :
                     accounts[id].type = type /\ accounts[id].currency = currency})

\* C7: per currency, the USER balances plus the EXTERNAL balances add up to
\* the TREASURY balances, in every committed state.
C7_Theorem ==
    \A c \in Currencies :
        TotalOf("user", c) + TotalOf("external", c) = TotalOf("treasury", c)

C7_Witness ==
    /\ \A c \in Currencies : TotalOf("treasury", c) > 0
    /\ \E c \in Currencies : TotalOf("external", c) > 0
    /\ \E r \in Posted : req[r].op = "deposit"
    /\ \E r \in Posted : req[r].op = "withdraw"

\* the balance each (user, currency) has in a table of account rows; a user
\* without an account has what a freshly created account has
UserBalance(accs, user_id, currency) ==
    LET ids == {id \in DOMAIN accs : /\ accs[id].type = "user"
                                     /\ accs[id].user_id = user_id
                                     /\ accs[id].currency = currency}
    IN  IF ids = {} THEN 0 ELSE accs[CHOOSE id \in ids : TRUE].balance

UserBalances(accs) ==
    [h \in Users \X Currencies |-> UserBalance(accs, h[1], h[2])]

\* the transfers ps run one after the other on the balances bal: <<TRUE,
\* balances>> when each of them succeeds, <<FALSE, _>> otherwise
RECURSIVE SerialRun(_, _)
SerialRun(bal, ps) ==
    IF ps = <<>> THEN <<TRUE, bal>>
    ELSE LET p == Head(ps)
             src == <<p.source_user_id, p.currency>>
             dst == <<p.destination_user_id, p.currency>>
         IN  IF src = dst \/ bal[src] < p.amount
             THEN <<FALSE, bal>>
             ELSE SerialRun([bal EXCEPT ![src] = @ - p.amount,
                                        ![dst] = @ + p.amount], Tail(ps))

Orders(S) ==
    {o \in [1..Cardinality(S) -> S] :
        \A i, j \in 1..Cardinality(S) : i # j => o[i] # o[j]}

\* the committed balances are those of a serial execution of the committed
\* transfers
C8_Serial ==
    (\A r \in Posted : req[r].op = "transfer")
    => /\ \E o \in Orders(Posted) :
             LET run == SerialRun(UserBalances(SeedAccounts(seed)),
                                  [i \in 1..Cardinality(Posted) |-> req[o[i]].payload])
             IN  run[1] /\ run[2] = UserBalances(accounts)
       /\ \A id \in DOMAIN accounts :
             accounts[id].type # "user" => accounts[id] = SeedAccounts(seed)[id]

BalanceIn(accs, id) == IF id \in DOMAIN accs THEN accs[id].balance ELSE 0

\* the commit of a transfer moves its amount from the source's committed
\* balance to the destination's committed balance and touches nothing else
C8_Fresh ==
    (/\ Len(transactions') = Len(transactions) + 1
     /\ transactions'[Len(transactions')].type = "transfer")
    => LET t == transactions'[Len(transactions')]
           src == t.account_id
           dst == t.context_data[2]
       IN  /\ BalanceIn(accounts', src) = BalanceIn(accounts, src) - t.amount
           /\ BalanceIn(accounts', dst) = BalanceIn(accounts, dst) + t.amount
           /\ \A id \in DOMAIN accounts' \ {src, dst} :
                 id \in DOMAIN accounts /\ accounts'[id] = accounts[id]

C9_Claim ==
    \A a, b \in Requests :
        LET pa == req[a].payload
            pb == req[b].payload
            have == UserBalances(SeedAccounts(seed))
        IN  (/\ a < b /\ Done(a) /\ Done(b)
             /\ a \in req[b].during
             /\ req[a].op = "transfer" /\ req[b].op = "transfer"
             /\ req[a].key # NoKey /\ req[b].key # NoKey
             /\ req[a].key # req[b].key
             /\ pa # pb
             /\ pa.source_user_id = pb.source_user_id
             /\ pa.destination_user_id = pb.destination_user_id
             /\ pa.source_user_id # pa.destination_user_id
             /\ pa.currency = pb.currency
             /\ pa.amount <= have[<<pa.source_user_id, pa.currency>>]
             /\ pb.amount <= have[<<pa.source_user_id, pa.currency>>]
             /\ pa.amount + pb.amount > have[<<pa.source_user_id, pa.currency>>]
             /\ Posted \subseteq {a, b})
            => \E w, l \in {a, b} :
                  /\ w # l
                  /\ req[w].code = HTTP_201_CREATED
                  /\ req[l].code = HTTP_400_BAD_REQUEST
                  /\ req[l].detail = "Insufficient available balance"
                  /\ SerialRun(have, <<req[w].payload>>)[2] = UserBalances(accounts)

\* C10: no two postings ever hold one account lock each while waiting for
\* the lock the other holds.
C10_Claim ==
    ~ \E a, b \in Requests :
          /\ a # b
          /\ Active(a) /\ Active(b)
          /\ req[a].held # {} /\ req[b].held # {}
          /\ WaitsForLock(a, b)
          /\ WaitsForLock(b, a)

\* the engine rejected the write of r with a domain error (ValueError)
DomainError(r) ==
    /\ req[r].code = HTTP_400_BAD_REQUEST
    /\ req[r].detail \in {"Cannot transfer to the same account",
                          "Currency mismatch between accounts",
                          "Insufficient available balance",
                          "Unable to create account"}

\* the step in which the handler of r answers with a domain error
C11_RolledBack ==
    \A r \in Requests :
        (req[r].pc # "done" /\ req'[r].pc = "done"
           /\ req'[r].code = HTTP_400_BAD_REQUEST
           /\ req'[r].detail # "Idempotency-Key header required")
        => /\ UNCHANGED store
           /\ req[r].key \notin DOMAIN idem'

\* the next write with the key of a rejected write is processed afresh
C11_Afresh ==
    \A a, b \in Requests :
        (b = a + 1 /\ Done(a) /\ DomainError(a)
           /\ req[b].pc # "idle" /\ req[b].key = req[a].key)
        => /\ ~ req[b].sawKey
           /\ ~ req[b].replayed
           /\ req[b].code # HTTP_409_CONFLICT

\* C11: a write (K, P) the engine rejects with a domain error is rolled
\* back as a whole: the store (accounts, transactions, ledger entries,
\* idempotency records) is as before the request and holds no record for
\* K; the next write with K, whatever its payload, is processed afresh.
C11_Theorem == [] C11_Afresh /\ [][C11_RolledBack]_vars

C11_Witness ==
    \E a, b \in Requests :
        /\ b = a + 1 /\ Done(a) /\ Done(b)
        /\ seed = "empty"
        /\ req[a].detail = "Insufficient available balance"
        /\ req[b].key = req[a].key
        /\ req[b].payload # req[a].payload
        /\ req[b].posted

\* the store a run starts from
SeedStore(s) ==
    <<SeedUsers, SeedAccounts(s), SeedTransactions(s), SeedEntries(s), SeedIdem(s),
      SeedExpiry(s)>>

\* what the first account of a payload holds in a table of account rows
AvailableOf(accs, user_id, currency) ==
    LET ids == {id \in DOMAIN accs : /\ accs[id].type = "user"
                                     /\ accs[id].user_id = user_id
                                     /\ accs[id].currency = currency}
    IN  IF ids = {} THEN 0 ELSE accs[CHOOSE id \in ids : TRUE].available_balance

Debited(op, payload) ==
    IF op = "transfer" THEN payload.source_user_id ELSE payload.user_id

\* a first withdrawal or transfer that passes the gate and asks for more
\* than the debited account has
C12_First ==
    LET op == req[1].op
        payload == req[1].payload
    IN  (/\ Done(1)
         /\ op \in {"withdraw", "transfer"}
         /\ req[1].key # NoKey
         /\ \A k \in DOMAIN SeedIdem(seed) :
               SeedIdem(seed)[k].request_hash # hash_request_payload(payload)
         /\ op = "transfer" => payload.source_user_id # payload.destination_user_id
         /\ payload.amount >
              AvailableOf(SeedAccounts(seed), Debited(op, payload), payload.currency))
        => /\ req[1].code = HTTP_400_BAD_REQUEST
           /\ req[1].detail = "Insufficient available balance"
           /\ (\A o \in Requests \ {1} : req[o].pc = "idle") => store = SeedStore(seed)

\* the engine's step on a debit larger than the committed available balance
C12_Rejected ==
    \A r \in Requests :
        (/\ req[r].pc = "post" /\ req'[r].pc = "done"
         /\ req[r].op \in {"withdraw", "transfer"}
         /\ req[r].objs[1].currency = req[r].payload.currency
         /\ req[r].payload.amount >
              (IF req[r].objs[1].id \in DOMAIN accounts
               THEN accounts[req[r].objs[1].id].available_balance ELSE 0))
        => /\ req'[r].code = HTTP_400_BAD_REQUEST
           /\ req'[r].detail = "Insufficient available balance"
           /\ UNCHANGED store

\* C12: a withdrawal or transfer whose amount exceeds the available balance
\* of the debited account fails with 400 (insufficient funds); every
\* account has the balance and available balance it had before the call and
\* no Transaction or ledger entry is added.
C12_Theorem == [] C12_First /\ [][C12_Rejected]_vars

C12_Witness ==
    /\ seed = "funded"
    /\ Done(1) /\ req[1].op = "withdraw"
    /\ req[1].detail = "Insufficient available balance"
    /\ accounts = SeedAccounts(seed)
    /\ Done(2) /\ req[2].op = "transfer"
    /\ req[2].detail = "Insufficient available balance"

\* the step in which request r commits its posting
Commits(r) == req[r].pc = "post" /\ req'[r].posted

\* the Transaction a committing step adds
Added == transactions'[Len(transactions')]

AvailableIn(accs, id) ==
    IF id \in DOMAIN accs THEN accs[id].available_balance ELSE 0

\* account id moved by d (balance and available balance) in the step
MovedBy(id, d) ==
    /\ id \in DOMAIN accounts'
    /\ accounts'[id].balance = BalanceIn(accounts, id) + d
    /\ accounts'[id].available_balance = AvailableIn(accounts, id) + d

\* the step added exactly the entries: direction d1 on account a1 and
\* direction d2 on account a2, both of the amount, for the added Transaction
PostedPair(a1, d1, a2, d2, amount) ==
    /\ Cardinality(entries' \ entries) = 2
    /\ entries \subseteq entries'
    /\ \A e \in entries' \ entries :
          /\ e.transaction_id = Added.id
          /\ e.amount = amount
          /\ \/ e.account_id = a1 /\ e.direction = d1
             \/ e.account_id = a2 /\ e.direction = d2
    /\ \E e \in entries' \ entries : e.account_id = a1 /\ e.direction = d1
    /\ \E e \in entries' \ entries : e.account_id = a2 /\ e.direction = d2

\* every account but a1 and a2 is as before the step
OthersKept(a1, a2) ==
    \A id \in DOMAIN accounts' \ {a1, a2} :
        id \in DOMAIN accounts /\ accounts'[id] = accounts[id]

C13_Deposit ==
    \A r \in Requests :
        (Commits(r) /\ req[r].op = "deposit")
        => LET p == req[r].payload
               ua == Added.account_id
               ta == Added.context_data[2]
           IN  /\ Len(transactions') = Len(transactions) + 1
               /\ Added.type = "deposit" /\ Added.amount = p.amount
               /\ Added.currency = p.currency /\ Added.user_id = p.user_id
               /\ accounts'[ua].type = "user"
               /\ accounts'[ua].user_id = p.user_id
               /\ accounts'[ua].currency = p.currency
               /\ MovedBy(ua, p.amount)
               /\ accounts'[ta].type = "treasury"
               /\ accounts'[ta].currency = p.currency
               /\ PostedPair(ua, "credit", ta, "debit", p.amount)
               /\ OthersKept(ua, ta)

\* C13: a deposit raises the balance and the available balance of the
\* user's account in the currency by exactly the amount (an account that
\* did not exist starts from zero), records one DEPOSIT Transaction of the
\* amount and posts exactly one CREDIT on the user's account and one DEBIT
\* on a treasury account of the currency.
C13_Theorem == [][C13_Deposit]_vars

C13_Witness ==
    \E r \in Posted :
        /\ seed = "empty"
        /\ req[r].op = "deposit"
        /\ req[r].payload.currency = "USD"
        /\ Posted = {r}
        /\ UserBalance(accounts, req[r].payload.user_id, "USD") = req[r].payload.amount

C14_Transfer ==
    \A r \in Requests :
        (Commits(r) /\ req[r].op = "transfer")
        => LET p == req[r].payload
               src == Added.account_id
               dst == Added.context_data[2]
           IN  /\ src # dst
               /\ accounts'[src].user_id = p.source_user_id
               /\ accounts'[dst].user_id = p.destination_user_id
               /\ MovedBy(src, 0 - p.amount)
               /\ MovedBy(dst, p.amount)
               /\ OthersKept(src, dst)
               /\ accounts'[src].balance + accounts'[dst].balance =
                    BalanceIn(accounts, src) + BalanceIn(accounts, dst)

\* C14: a successful transfer of x lowers the source's balance and
\* available balance by exactly x, raises the destination's by exactly x
\* and leaves every other account as it was; the sum of the two balances
\* is preserved.
C14_Theorem == [][C14_Transfer]_vars

C14_Witness ==
    \E r \in Posted :
        /\ req[r].op = "transfer"
        /\ \E o \in Posted : req[o].op = "withdraw"
        /\ UserBalance(accounts, req[r].payload.destination_user_id, "KES") >= 2

C15_Withdraw ==
    \A r \in Requests :
        (Commits(r) /\ req[r].op = "withdraw")
        => LET p == req[r].payload
               ua == Added.account_id
               xa == Added.context_data[2]
           IN  /\ Len(transactions') = Len(transactions) + 1
               /\ Added.type = "withdrawal" /\ Added.amount = p.amount
               /\ p.amount <= AvailableIn(accounts, ua)
               /\ accounts'[ua].type = "user"
               /\ accounts'[ua].user_id = p.user_id
               /\ accounts'[ua].currency = p.currency
               /\ MovedBy(ua, 0 - p.amount)
               /\ accounts'[xa].type = "external"
               /\ accounts'[xa].currency = p.currency
               /\ MovedBy(xa, p.amount)
               /\ PostedPair(ua, "debit", xa, "credit", p.amount)
               /\ OthersKept(ua, xa)

\* C15: a successful withdrawal lowers the user account's balance and
\* available balance by exactly the amount, raises the external account of
\* the currency by the amount, records one WITHDRAWAL Transaction and posts
\* one DEBIT on the user's account and one CREDIT on the external account;
\* the treasury and every other account are unchanged.
C15_Theorem == [][C15_Withdraw]_vars

C15_Witness ==
    \E r \in Posted :
        /\ req[r].op = "withdraw"
        /\ req[r].payload.currency = "USD"
        /\ \E id \in DOMAIN accounts :
              /\ accounts[id].type = "external"
              /\ accounts[id].currency = "USD"
              /\ accounts[id].balance = req[r].payload.amount
        /\ \E id \in DOMAIN accounts :
              accounts[id].type = "treasury" /\ accounts[id].currency = "USD"

\* C16: a write whose payload hash is stored under another idempotency key
\* is answered 409 and posts nothing.
C16_Claim ==
    \A a, b \in Requests :
        (/\ a < b /\ Done(a) /\ Done(b)
         /\ a \notin req[b].during
         /\ req[a].posted
         /\ req[b].key # NoKey
         /\ req[b].key # req[a].key
         /\ ~ req[b].sawKey
         /\ hash_request_payload(req[b].payload) = hash_request_payload(req[a].payload))
        => /\ req[b].code = HTTP_409_CONFLICT
           /\ ~ req[b].posted

\* C17: a posting that loses one optimistic-version race on an account is
\* retried; the request does not fail on it.
C17_Claim ==
    \A r \in Requests : Done(r) => req[r].detail # "StaleDataError"

AccountsOf(type, user_id, currency) ==
    {id \in DOMAIN accounts : /\ accounts[id].type = type
                              /\ accounts[id].user_id = user_id
                              /\ accounts[id].currency = currency}

\* C19: at most one TREASURY and one EXTERNAL account per currency and at
\* most one account per (user, currency); no get_or_create finds more than
\* one matching account.
C19_Claim ==
    /\ \A c \in Currencies :
          /\ Cardinality(AccountsOf("treasury", "", c)) <= 1
          /\ Cardinality(AccountsOf("external", "", c)) <= 1
          /\ \A u \in Users : Cardinality(AccountsOf("user", u, c)) <= 1
    /\ \A r \in Requests : req[r].detail # "MultipleResultsFound"

\* C20: two requests that both find no account for a (user, currency) and
\* both create it leave exactly one account and neither fails on the race.
C20_Claim ==
    /\ \A c \in Currencies, u \in Users :
          Cardinality(AccountsOf("user", u, c)) <= 1
    /\ \A r \in Requests : Done(r) => req[r].detail # "Unable to create account"

C21_Whole ==
    /\ \A k \in DOMAIN idem :
          /\ Settled(idem[k])
          /\ \E i \in 1..Len(transactions) :
                idem[k].response_body =
                  model_dump_json(TransactionResponse(transactions[i]))
    /\ Len(transactions) = Len(SeedTransactions(seed)) + Cardinality(Posted)
    /\ Cardinality(entries) = 2 * Len(transactions)

\* a step changes the store only as the commit of one request, and then it
\* writes the Transaction, its two entries, both accounts and the settled
\* record of the key together; the step that ends a request otherwise
\* leaves the store as it was
C21_Together ==
    /\ (store' # store) =>
          \E r \in Requests :
              /\ Commits(r)
              /\ req'[r].code = HTTP_201_CREATED
              /\ Len(transactions') = Len(transactions) + 1
              /\ Cardinality(entries' \ entries) = 2
              /\ \A e \in entries' \ entries : e.transaction_id = Added.id
              /\ \A id \in {Added.account_id, Added.context_data[2]} :
                    /\ id \in DOMAIN accounts'
                    /\ BalanceIn(accounts', id) # BalanceIn(accounts, id)
              /\ idem'[req[r].key] =
                    StoreResponse(hash_request_payload(req[r].payload),
                                  HTTP_201_CREATED,
                                  model_dump_json(TransactionResponse(Added)))
    /\ \A r \in Requests :
          (req[r].pc # "done" /\ req'[r].pc = "done" /\ ~ req'[r].posted)
          => UNCHANGED store

\* C21: every write commits atomically: the balance changes of both
\* accounts, the Transaction, its two ledger entries and the idempotency
\* record with its response become durable together or not at all; a
\* request that is cancelled or fails before its commit leaves none of them.
C21_Theorem == [] C21_Whole /\ [][C21_Together]_vars

C21_Witness ==
    \E a, b \in Requests :
        /\ a \in req[b].during
        /\ req[a].posted
        /\ Done(b) /\ req[b].detail = "CancelledError"
        /\ req[b].key \notin DOMAIN idem
        /\ req[b].op = "deposit"
        /\ UserBalance(accounts, req[b].payload.user_id, "KES") =
             UserBalance(SeedAccounts(seed), req[b].payload.user_id, "KES")

\* a request without the header is answered 400 and has posted nothing
C22_Rejected ==
    /\ \A r \in Requests :
          (req[r].pc # "idle" /\ req[r].key = NoKey)
          => /\ Done(r)
             /\ req[r].code = HTTP_400_BAD_REQUEST
             /\ req[r].detail = "Idempotency-Key header required"
             /\ ~ req[r].posted /\ ~ req[r].replayed
    /\ NoKey \notin DOMAIN idem

\* the step in which it arrives is its only step and changes nothing
C22_Untouched ==
    \A r \in Requests :
        (req[r].pc = "idle" /\ req'[r].pc # "idle" /\ req'[r].key = NoKey)
        => /\ req'[r].pc = "done"
           /\ UNCHANGED store

\* C22: a write request without an Idempotency-Key header is rejected with
\* 400 before the gate or the engine is touched: no idempotency record,
\* account, Transaction or ledger entry is created or changed.
C22_Theorem == [] C22_Rejected /\ [][C22_Untouched]_vars

C22_Witness ==
    \E a, b \in Requests :
        /\ Active(a) /\ req[a].keyRow = "inserted"
        /\ a \in req[b].during
        /\ Done(b) /\ req[b].key = NoKey
        /\ req[b].code = HTTP_400_BAD_REQUEST

\* the users a request names
Named(r) ==
    IF req[r].op = "transfer"
    THEN {req[r].payload.source_user_id, req[r].payload.destination_user_id}
    ELSE {req[r].payload.user_id}

\* C23: a deposit, withdrawal or transfer that names a user that does not
\* exist is rejected with 404 (NotFound) and creates no account,
\* Transaction or ledger entry for that user.
C23_Claim ==
    \A r \in Requests :
        (/\ Done(r)
         /\ req[r].key # NoKey
         /\ ~ req[r].sawKey
         /\ HashUnused(r)
         /\ Named(r) \ DOMAIN users # {})
        => /\ req[r].code = HTTP_404_NOT_FOUND
           /\ ~ req[r].posted
           /\ \A id \in DOMAIN accounts : accounts[id].user_id \in DOMAIN users \cup {""}

\* the step in which the engine of r, holding both row locks, validates a
\* transfer or withdrawal: it answers "Insufficient available balance"
\* exactly when the amount exceeds the available balance the debited row
\* has in the store at that moment
C26_PostLock ==
    \A r \in Requests :
        (/\ req[r].pc = "post" /\ req'[r].pc = "done"
         /\ req[r].op \in {"transfer", "withdraw"}
         /\ req[r].objs[1].id \in DOMAIN accounts
         /\ accounts[req[r].objs[1].id].currency = req[r].payload.currency)
        => (req'[r].detail = "Insufficient available balance"
              <=> req[r].payload.amount >
                    accounts[req[r].objs[1].id].available_balance)

\* C26: a transfer or withdrawal validates currency and available funds
\* against the account state observed after its row lock is granted (the
\* state committed by any transaction that held the lock before it), never
\* against a balance the request read before acquiring the lock.
C26_Claim == [][C26_PostLock]_vars

\* the entries posted on account id
EntriesOn(id) == {e \in entries : e.account_id = id}

\* e2 is the entry posted on the account of e1 right after e1
Consecutive(e1, e2) ==
    /\ e1.account_id = e2.account_id
    /\ e1.transaction_id < e2.transaction_id
    /\ ~ \E e \in EntriesOn(e1.account_id) :
            /\ e1.transaction_id < e.transaction_id
            /\ e.transaction_id < e2.transaction_id

\* what the posting of e did to the balance of its account: a CREDIT
\* raises it and a DEBIT lowers it, but for the DEBIT of a deposit on the
\* treasury account, which raises it
Applied(e) ==
    IF accounts[e.account_id].type = "treasury" THEN e.amount ELSE Signed(e)

\* each entry a commit adds carries the balances its account has right
\* after the commit, which are those before it moved by the amount
C27_After ==
    \A r \in Requests :
        Commits(r) =>
            \A e \in entries' \ entries :
                /\ e.account_id \in DOMAIN accounts'
                /\ e.balance_after = accounts'[e.account_id].balance
                /\ e.available_balance_after =
                     accounts'[e.account_id].available_balance
                /\ \/ e.balance_after = BalanceIn(accounts, e.account_id) + e.amount
                   \/ e.balance_after = BalanceIn(accounts, e.account_id) - e.amount

\* the entries of an account, in commit order, form a chain from zero to
\* the account's balance
C27_Chain ==
    /\ \A e1, e2 \in entries :
          Consecutive(e1, e2)
          => /\ e2.balance_after = e1.balance_after + Applied(e2)
             /\ e2.available_balance_after =
                  e1.available_balance_after + Applied(e2)
    /\ \A e \in entries :
          /\ (~ \E e0 \in entries : Consecutive(e0, e))
              => e.balance_after = Applied(e)
          /\ (~ \E e2 \in entries : Consecutive(e, e2))
              => e.balance_after = accounts[e.account_id].balance

\* C27: each ledger entry's balance_after and available_balance_after are
\* the balance and available balance of its account right after that
\* posting was applied under the posting's lock; for consecutive committed
\* entries on one account, balance_after of the later differs from
\* balance_after of the earlier by exactly the later entry's amount.
C27_Theorem == [] C27_Chain /\ [][C27_After]_vars

C27_Witness ==
    \E a, b \in Posted :
        /\ a \in req[b].during
        /\ seed = "funded"
        /\ req[a].op = "withdraw" /\ req[b].op = "transfer"
        /\ \E e1, e2 \in entries :
              /\ Consecutive(e1, e2)
              /\ e2.transaction_id = Len(transactions)
              /\ e1.transaction_id = Len(transactions) - 1
              /\ e2.direction # e1.direction

\* a settled record stays as it is
C28_Settled ==
    \A k \in DOMAIN idem :
        Settled(idem[k])
        => /\ k \in DOMAIN idem'
           /\ idem'[k].request_hash = idem[k].request_hash
           /\ idem'[k].response_code = idem[k].response_code
           /\ idem'[k].response_body = idem[k].response_body
           /\ ~ idem'[k].locked

\* C28: per idempotency key the record only moves NEW -> LOCKED -> SETTLED;
\* once a record is SETTLED, no later acquire for that key changes its
\* request_hash, response_code or response_body or puts it back into the
\* locked state.
C28_Claim == [][C28_Settled]_vars

\* C29: a replay is bound to the operation that settled the key: when key K
\* was settled by a deposit, a later withdrawal sent with K and a
\* field-for-field identical body is not answered with the deposit's cached
\* Transaction.
C29_Claim ==
    \A a, b \in Requests :
        (/\ a < b /\ Done(a) /\ Done(b)
         /\ req[a].op = "deposit" /\ req[a].posted
         /\ req[b].op = "withdraw"
         /\ req[b].key = req[a].key
         /\ req[b].payload = req[a].payload)
        => ~ /\ req[b].code = HTTP_201_CREATED
             /\ req[b].body = req[a].body
             /\ req[b].body[1].type = "deposit"

\* C30: two overlapping deposits to two different users in one currency,
\* which share only the treasury account of that currency, both commit
\* with 201; afterwards each user's balance has grown by its own amount and
\* the treasury balance by the sum of both amounts.
C30_Claim ==
    \A a, b \in Requests :
        LET pa == req[a].payload
            pb == req[b].payload
        IN  (/\ a < b /\ Done(a) /\ Done(b)
             /\ a \in req[b].during
             /\ req[a].op = "deposit" /\ req[b].op = "deposit"
             /\ req[a].key # NoKey /\ req[b].key # NoKey
             /\ req[a].key # req[b].key
             /\ ~ req[a].sawKey /\ ~ req[b].sawKey
             /\ HashUnused(a) /\ HashUnused(b)
             /\ pa.user_id # pb.user_id
             /\ pa.currency = pb.currency)
            => /\ req[a].code = HTTP_201_CREATED
               /\ req[b].code = HTTP_201_CREATED
               /\ UserBalance(accounts, pa.user_id, pa.currency) =
                    UserBalance(SeedAccounts(seed), pa.user_id, pa.currency)
                      + pa.amount
               /\ UserBalance(accounts, pb.user_id, pb.currency) =
                    UserBalance(SeedAccounts(seed), pb.user_id, pb.currency)
                      + pb.amount
               /\ TotalOf("treasury", pa.currency) =
                    (IF seed = "empty" THEN 0 ELSE 3) + pa.amount + pb.amount

\* C24: Transaction.reference is unique in every reachable state, and a
\* write that supplies a reference a stored Transaction has is rejected
\* with 409 (UniqueViolation), leaving balances, transactions, ledger
\* entries and idempotency records unchanged.
C24_Claim ==
    /\ \A i, j \in 1..Len(transactions) :
          transactions[i].reference = transactions[j].reference => i = j
    /\ \A a, b \in Requests :
          (/\ b = a + 1 /\ Done(a) /\ Done(b)
           /\ req[a].posted
           /\ req[a].payload.reference # NoRef
           /\ req[b].payload.reference = req[a].payload.reference
           /\ req[b].op = "deposit"
           /\ req[b].key # NoKey /\ ~ req[b].sawKey
           /\ HashUnused(b))
          => /\ req[b].code = HTTP_409_CONFLICT
             /\ ~ req[b].posted

\* a user had the email of r's payload when r arrived
EmailInUse(r) ==
    \/ \E u \in DOMAIN SeedUsers : SeedUsers[u].email = req[r].payload.email
    \/ \E a \in Requests :
          /\ a < r /\ req[a].op = "create_user"
          /\ req[a].code = HTTP_201_CREATED /\ ~ req[a].replayed
          /\ req[a].payload.email = req[r].payload.email

\* C25: creating a user with an email an existing user has is rejected with
\* 409: no second user is created, no idempotency record for the request's
\* key is persisted, and user emails are unique in every reachable state.
C25_Claim ==
    /\ \A u, v \in DOMAIN users : users[u].email = users[v].email => u = v
    /\ \A r \in Requests :
          (/\ Done(r) /\ req[r].op = "create_user"
           /\ req[r].key # NoKey /\ ~ req[r].sawKey
           /\ EmailInUse(r))
          => /\ req[r].code = HTTP_409_CONFLICT
             /\ (\A o \in Requests : o > r => req[o].pc = "idle")
                  => req[r].key \notin DOMAIN idem

\* ------------------------------------------------------------ C31
\* every idempotency row of the committed store carries a response
C31_Committed ==
    \A k \in DOMAIN idem :
      /\ idem[k].response_code # 0
      /\ idem[k].response_body # <<>>
      /\ ~ idem[k].locked

\* what a request saw of its key: get_key at arrival found no row or a row
\* with a response, and the row acquire_lock found is a committed one with a
\* response; a row without a response is the private row of the request
\* that inserted it
C31_Unobserved ==
    \A r \in Requests :
      /\ (req[r].pc # "idle") => ~ req[r].sawExpired
      /\ (req[r].keyRow = "existing") =>
            /\ HasKey(req[r].key)
            /\ idem[req[r].key].response_body # <<>>
      /\ (req[r].keyRow = "inserted") => ~ HasKey(req[r].key)

\* C31: every idempotency record of a committed state has a response code
\* and a response body; a record without a response exists only inside the
\* uncommitted transaction that inserted it, so no other request observes a
\* key in flight.
C31_Theorem == C31_Committed /\ C31_Unobserved

\* a request holds its freshly inserted key while another request with the
\* same key, which arrived meanwhile and saw no row, waits on the INSERT
C31_Witness ==
    \E r, o \in Requests :
      /\ r # o
      /\ req[r].keyRow = "inserted"
      /\ req[o].key = req[r].key
      /\ r \in req[o].during
      /\ ~ req[o].sawKey
      /\ req[o].pc = "insert_key"

\* ------------------------------------------------------------ C32
\* a step keeps every account row, never lowers its version, and moves the
\* version by one exactly when it writes the balance
C32_Monotone ==
    \A id \in DOMAIN accounts :
      /\ id \in DOMAIN accounts'
      /\ accounts'[id].version >= accounts[id].version
      /\ (accounts'[id].balance # accounts[id].balance) =>
            accounts'[id].version = accounts[id].version + 1
      /\ (accounts'[id].version # accounts[id].version) =>
            /\ accounts'[id].version = accounts[id].version + 1
            /\ accounts'[id].balance # accounts[id].balance

\* an object of r was loaded at a version the stored row has left behind
C32_Behind(r) ==
    \E i \in 1..Len(req[r].objs) :
      /\ ~ req[r].objs[i].new
      /\ req[r].objs[i].version < accounts[req[r].objs[i].id].version

\* the posting step of a request that holds such an object writes nothing
C32_Rejected ==
    \A r \in Requests :
      (req[r].pc = "post" /\ req'[r].pc = "done" /\ C32_Behind(r)) =>
         /\ ~ req'[r].posted
         /\ req'[r].code # HTTP_201_CREATED
         /\ UNCHANGED store

\* C32: the version of an account never decreases, rises by exactly one
\* with every committed update of the account's balance, and an update
\* computed from a version older than the stored one is rejected, not
\* applied.
C32_Theorem == [][C32_Monotone /\ C32_Rejected]_vars

\* one request committed an update, which moved a seeded row one version
\* on, and another was rejected for its stale version
C32_Witness ==
    \E r, o \in Requests :
      /\ req[r].detail = "StaleDataError"
      /\ req[o].posted
      /\ \E id \in DOMAIN SeedAccounts(seed) :
           accounts[id].version = SeedAccounts(seed)[id].version + 1

\* ------------------------------------------------------------ C33
\* a transfer request whose source user is its destination user
C33_Same(r) ==
    /\ req[r].pc # "idle"
    /\ req[r].op = "transfer"
    /\ req[r].payload.source_user_id = req[r].payload.destination_user_id

\* such a request, and any request whose two accounts are one, never takes
\* a row lock, never reaches the locking and posting steps past the
\* comparison, and never posts
C33_NoLock ==
    \A r \in Requests :
      (C33_Same(r) \/ (req[r].op = "transfer" /\ SameAccount(req[r].objs))) =>
         /\ req[r].held = {}
         /\ req[r].pc \notin {"lock_first", "lock_second", "post"}
         /\ ~ req[r].posted
         /\ req[r].code # HTTP_201_CREATED

\* the step in which both accounts of such a request are resolved ends it
\* with 400 and leaves the store as it was
C33_Fails ==
    \A r \in Requests :
      (C33_Same(r) /\ req[r].pc = "second" /\ req'[r].pc # "second") =>
         /\ req'[r].pc = "done"
         /\ req'[r].code = HTTP_400_BAD_REQUEST
         /\ req'[r].detail = "Cannot transfer to the same account"
         /\ UNCHANGED store

\* C33: a transfer whose source and destination are the same account (an
\* API transfer from a user to that same user) fails with 400 "Cannot
\* transfer to the same account" before any account is locked and changes
\* no balance, Transaction or ledger entry.
C33_Theorem == [](C33_NoLock) /\ [][C33_Fails]_vars

\* a transfer of u1 to u1 was rejected although u1's account held the amount
C33_Witness ==
    \E r \in Requests :
      /\ C33_Same(r)
      /\ req[r].detail = "Cannot transfer to the same account"
      /\ UserBalance(accounts, req[r].payload.source_user_id,
                     req[r].payload.currency) >= req[r].payload.amount

\* ------------------------------------------------------------ C34
\* an operation called with an amount that is not positive
C34_Invalid(r) == req[r].pc # "idle" /\ req[r].payload.amount <= 0

\* such an operation takes no lock and posts nothing; a deposit or
\* withdrawal resolves no account at all
C34_Before ==
    \A r \in Requests :
      C34_Invalid(r) =>
         /\ req[r].held = {}
         /\ req[r].pc \notin {"lock_second", "post"}
         /\ ~ req[r].posted
         /\ (req[r].op # "transfer") =>
               /\ req[r].objs = <<>>
               /\ req[r].pc \in {"first", "done"}

\* the error that ends such an operation
C34_Error(r) ==
    IF req[r].op = "transfer" /\ SameAccount(req[r].objs)
    THEN "Cannot transfer to the same account"
    ELSE AmountMessage(req[r].op)

\* its only step ends it with that error and leaves the store as it was
C34_Fails ==
    \A r \in Requests :
      (C34_Invalid(r) /\ req'[r] # req[r]) =>
         /\ req'[r].pc = "done"
         /\ req'[r].code = HTTP_400_BAD_REQUEST
         /\ req'[r].detail = C34_Error(r)
         /\ UNCHANGED store

\* C34 (amended): deposit, transfer and withdraw called with amount <= 0
\* fail before any account is resolved, created or locked and leave the
\* accounts, balances, transactions and ledger entries unchanged; deposit,
\* withdraw and a transfer between two different accounts fail with
\* InvalidAmount, a transfer from an account to itself with SameAccount.
C34_Theorem == [](C34_Before) /\ [][C34_Fails]_vars

\* a deposit, a transfer between two accounts and a withdrawal were each
\* refused for their amount
C34_Witness ==
    \E r, o \in Requests :
      /\ C34_Invalid(r) /\ C34_Invalid(o)
      /\ req[r].detail = "Transfer amount must be positive"
      /\ req[o].detail \in {"Deposit amount must be positive",
                            "Withdrawal amount must be positive"}

\* C34: deposit, transfer and withdraw called with amount <= 0 fail with
\* InvalidAmount before any account is resolved, created or locked.
C34_Claim ==
    \A r \in Requests :
      (C34_Invalid(r) /\ Done(r)) =>
         /\ req[r].code = HTTP_400_BAD_REQUEST
         /\ req[r].detail = AmountMessage(req[r].op)

\* ------------------------------------------------------------ C35
\* a transfer of a positive amount between two accounts of which one is not
\* held in the currency of the request
C35_Mismatch(r) ==
    /\ req[r].op = "transfer"
    /\ Len(req[r].objs) = 2
    /\ req[r].objs[1].id # req[r].objs[2].id
    /\ req[r].payload.amount > 0
    /\ \/ req[r].objs[1].currency # req[r].payload.currency
       \/ req[r].objs[2].currency # req[r].payload.currency

\* no step of such a transfer writes the store, and the step taken with
\* both rows locked ends it with 400 "Currency mismatch between accounts"
C35_Fails ==
    \A r \in Requests :
      (C35_Mismatch(r) /\ req'[r] # req[r]) =>
         /\ UNCHANGED store
         /\ ~ req'[r].posted
         /\ (req[r].pc = "post") => (req'[r].pc = "done")
         /\ (req'[r].pc = "done") =>
               /\ req'[r].code = HTTP_400_BAD_REQUEST
               /\ req'[r].detail = "Currency mismatch between accounts"

\* C35: a transfer in which the currency of the source account or of the
\* destination account differs from the currency of the request fails with
\* CurrencyMismatch, leaves both balances unchanged and creates no
\* Transaction or ledger entry, even when the source has sufficient funds.
C35_Theorem == [][C35_Fails]_vars

\* a transfer was refused for the currency although every account of its
\* source user held the amount
C35_Witness ==
    \E r \in Requests :
      /\ req[r].detail = "Currency mismatch between accounts"
      /\ LET own == {a \in DOMAIN accounts :
                        accounts[a].user_id = req[r].payload.source_user_id}
         IN  /\ own # {}
             /\ \A a \in own :
                   accounts[a].available_balance >= req[r].payload.amount

\* ------------------------------------------------------------ C36
\* the two balance columns of every stored account are equal
C36_Equal ==
    \A id \in DOMAIN accounts :
      accounts[id].available_balance = accounts[id].balance

\* a step moves both columns of an account by the same amount, and an
\* account it adds was created with both at zero
C36_Together ==
    \A id \in DOMAIN accounts' :
      IF id \in DOMAIN accounts
      THEN accounts'[id].available_balance - accounts[id].available_balance
             = accounts'[id].balance - accounts[id].balance
      ELSE \E r \in Requests :
             /\ Commits(r)
             /\ \E i \in 1..Len(req[r].objs) :
                  /\ req[r].objs[i].id = id
                  /\ req[r].objs[i].new
                  /\ req[r].objs[i].balance = 0
                  /\ req[r].objs[i].available_balance = 0

\* C36: in every reachable state every account has available_balance equal
\* to balance: each posting changes both fields of an account by the same
\* amount and new accounts start with both at zero.
C36_Theorem == [](C36_Equal) /\ [][C36_Together]_vars

\* an account created during the run has been credited and debited
C36_Witness ==
    /\ seed = "empty"
    /\ \E r, o \in Requests :
         /\ req[r].posted /\ req[r].op = "deposit"
         /\ req[o].posted /\ req[o].op # "deposit"
    /\ \E id \in DOMAIN accounts :
         accounts[id].type = "user" /\ accounts[id].version > 2

\* ------------------------------------------------------------ C37
\* every stored Transaction is completed, and the table holds the seeded
\* rows and one row for each request that posted
C37_Completed ==
    /\ \A i \in 1..Len(transactions) : transactions[i].status = "completed"
    /\ Len(transactions) = Len(SeedTransactions(seed)) + Cardinality(Posted)

\* a step that ends a request without posting, as any step that commits
\* nothing, leaves the table as it was; a step that commits appends one row
C37_Rows ==
    IF \E r \in Requests : Commits(r)
    THEN /\ Len(transactions') = Len(transactions) + 1
         /\ SubSeq(transactions', 1, Len(transactions)) = transactions
         /\ Added.status = "completed"
    ELSE transactions' = transactions

\* C37: every Transaction ever present in the store has status COMPLETED;
\* the engine never persists a PENDING or FAILED Transaction, and a rejected
\* or failed operation leaves no Transaction row at all.
C37_Theorem == [](C37_Completed) /\ [][C37_Rows]_vars

\* one request posted, another was rejected by the engine or failed in the
\* flush
C37_Witness ==
    \E r, o \in Requests :
      /\ req[r].posted
      /\ req[o].detail \in {"Insufficient available balance", "StaleDataError"}
      /\ Len(transactions) = Len(SeedTransactions(seed)) + 1

\* ------------------------------------------------------------ C38
\* the entries a committing step adds
C38_Entries == entries' \ entries

\* the anchor of the Transaction a step adds is the user account `a` with
\* owner `user_id`, on which the step posted `direction`; its context names
\* under `key` an account of type `type`, on which it posted the other entry
C38_Anchored(a, user_id, direction, key, type) ==
    LET c == Added.context_data[2]
    IN  /\ Added.account_id = a
        /\ Added.user_id = user_id
        /\ accounts'[a].type = "user"
        /\ accounts'[a].user_id = user_id
        /\ Added.context_data[1] = key
        /\ c # a
        /\ c \in DOMAIN accounts'
        /\ accounts'[c].type = type
        /\ Cardinality(C38_Entries) = 2
        /\ \A e \in C38_Entries : e.transaction_id = Added.id
        /\ \E e \in C38_Entries : e.account_id = a /\ e.direction = direction
        /\ \E e \in C38_Entries : e.account_id = c /\ e.direction # direction

C38_Anchor ==
    \A r \in Requests :
      Commits(r) =>
        LET p == req[r].payload
            a == Added.account_id
        IN  CASE req[r].op = "deposit" ->
                   /\ Added.type = "deposit"
                   /\ C38_Anchored(a, p.user_id, "credit",
                                   "treasury_account_id", "treasury")
              [] req[r].op = "withdraw" ->
                   /\ Added.type = "withdrawal"
                   /\ C38_Anchored(a, p.user_id, "debit",
                                   "external_account_id", "external")
              [] req[r].op = "transfer" ->
                   /\ Added.type = "transfer"
                   /\ a = req[r].objs[1].id
                   /\ C38_Anchored(a, p.source_user_id, "debit",
                                   "destination_account_id", "user")
                   /\ accounts'[Added.context_data[2]].user_id
                        = p.destination_user_id

\* C38: a DEPOSIT or WITHDRAWAL Transaction has account_id = the user's
\* account and user_id = the requesting user, a TRANSFER has account_id =
\* the source account and user_id = the owner of the source account; the
\* context names the counterparty account that carries the second ledger
\* entry, as treasury_account_id, destination_account_id or
\* external_account_id respectively.
C38_Theorem == [][C38_Anchor]_vars

\* a transfer and a withdrawal have been recorded
C38_Witness ==
    \E i, j \in 1..Len(transactions) :
      /\ i > Len(SeedTransactions(seed)) /\ j > Len(SeedTransactions(seed))
      /\ transactions[i].type = "transfer"
      /\ transactions[j].type = "withdrawal"

\* ------------------------------------------------------------ C39
\* the accounts of a user in a currency
C39_Held(user_id, currency) ==
    {a \in DOMAIN accounts : /\ accounts[a].user_id = user_id
                             /\ accounts[a].currency = currency}

RECURSIVE C39_Available(_)
C39_Available(ids) ==
    IF ids = {} THEN 0
    ELSE LET id == CHOOSE x \in ids : TRUE
         IN  accounts[id].available_balance + C39_Available(ids \ {id})

\* the step that serves a balance read writes nothing and reports, for
\* each currency the user holds an account in, the sum of the balances of
\* these accounts, and no total for any other currency
C39_Read ==
    \A r \in Requests :
      (req[r].pc = "idle" /\ req'[r].op = "balance") =>
         LET user_id == req'[r].payload.user_id
             summary == req'[r].body[1]
         IN  /\ UNCHANGED store
             /\ req'[r].code = HTTP_200_OK
             /\ summary.user_id = user_id
             /\ DOMAIN summary.totals =
                  {c \in Currencies : C39_Held(user_id, c) # {}}
             /\ \A c \in DOMAIN summary.totals :
                  /\ summary.totals[c].balance
                       = BalanceTotal(C39_Held(user_id, c))
                  /\ summary.totals[c].available_balance
                       = C39_Available(C39_Held(user_id, c))
             /\ {summary.accounts[i].id : i \in DOMAIN summary.accounts}
                  = UNION {C39_Held(user_id, c) : c \in Currencies}

\* C39: GET balance for any user_id, one with no accounts included, creates
\* no account and no idempotency record and changes no balance, and it
\* reports for each currency a total equal to the sum of that user's
\* account balances in that currency.
C39_Theorem == [][C39_Read]_vars

\* the balance of a user without accounts was read, and that of a user who
\* holds money
C39_Witness ==
    \E r, o \in Requests :
      /\ req[r].op = "balance" /\ req[o].op = "balance"
      /\ DOMAIN req[r].body[1].totals = {}
      /\ req[r].body[1].accounts = <<>>
      /\ \E c \in DOMAIN req[o].body[1].totals :
           req[o].body[1].totals[c].balance > 0

\* ------------------------------------------------------------ C40
\* two dicts are the same map: the same keys with the same values, each
\* written the same way
C40_SameMap(d, e) ==
    /\ {d[i][1] : i \in DOMAIN d} = {e[i][1] : i \in DOMAIN e}
    /\ \A i \in DOMAIN d : DictValue(e, d[i][1]) = d[i][2]

\* the two amounts are the same number
C40_SameNumber(x, y) ==
    x.digits * Pow10(y.places) = y.digits * Pow10(x.places)

\* every payload retried on the key hashes as the stored one, and is let
\* through, exactly when it is the same map, whatever the order of its
\* items; and any two retried payloads hash equal exactly when they are
\* the same map
C40_Hashes ==
    (probe.pc = "stored") =>
       /\ \A i \in DOMAIN probe.retries :
            LET t == probe.retries[i]
            IN  IF C40_SameMap(probe.first, t.payload)
                THEN t.payload_hash = probe.stored /\ t.code = 0
                ELSE t.payload_hash # probe.stored
                       /\ t.code = HTTP_409_CONFLICT
       /\ \A i, j \in DOMAIN probe.retries :
            C40_SameMap(probe.retries[i].payload, probe.retries[j].payload)
              <=> (probe.retries[i].payload_hash = probe.retries[j].payload_hash)

\* C40: hash_request_payload is a function of the payload as a map: two
\* payloads with the same keys and values hash equal whatever the insertion
\* order of their keys, and two payloads that differ in the canonical
\* string of a field (an amount written with another scale, "10" against
\* "10.00", included) have different canonical JSON and are treated as
\* different payloads by the idempotency gate.
C40_Theorem == C40_Hashes

\* on one stored payload, a retry with the same items in another order was
\* let through and a retry whose amount is the same number written with
\* another scale was answered 409
C40_Witness ==
    /\ probe # NoProbe
    /\ \E i, j \in DOMAIN probe.retries :
         LET t == probe.retries[i]
             u == probe.retries[j]
         IN  /\ t.payload # probe.first
             /\ C40_SameMap(probe.first, t.payload)
             /\ t.code = 0
             /\ u.code = HTTP_409_CONFLICT
             /\ DictValue(u.payload, "user_id")
                  = DictValue(probe.first, "user_id")
             /\ DictValue(u.payload, "currency")
                  = DictValue(probe.first, "currency")
             /\ C40_SameNumber(DictValue(u.payload, "amount"),
                               DictValue(probe.first, "amount"))
             /\ DictValue(u.payload, "amount").places
                  # DictValue(probe.first, "amount").places
====
